---- MODULE Spec2Model ----
(***************************************************************************)
(* JSC: a baseline JPEG codec working in caller-supplied memory.           *)
(* The module models the compressor (marker writer, Huffman entropy        *)
(* encoder, the jpeg_* compression API and the jsc_compress one-shot       *)
(* driver) and the decompressor (marker reader, input controller, Huffman  *)
(* entropy decoder, coefficient controller) at the level of the bytes of   *)
(* the datastream.  Sample data enters the compressor as quantised DCT     *)
(* coefficient blocks (colour conversion, downsampling and the DCT are the *)
(* producers of those blocks and are not modelled); the decompressor       *)
(* delivers the coefficient blocks it decoded.                             *)
(***************************************************************************)
EXTENDS Integers, Sequences, FiniteSets, TLC

VARIABLES cinfo, dinfo, app

vars == <<cinfo, dinfo, app>>

(***************************************************************************)
(* Program constants                                                       *)
(***************************************************************************)
DCTSIZE == 8
DCTSIZE2 == 64
NUM_QUANT_TBLS == 4
NUM_HUFF_TBLS == 2
MAX_COMPS_IN_SCAN == 4
MAX_SAMP_FACTOR == 4
D_MAX_BLOCKS_IN_MCU == 10
JPEG_MAX_DIMENSION == 65500
BITS_IN_JSAMPLE == 8

CSTATE_START == 100
CSTATE_SCANNING == 101
CSTATE_RAW_OK == 102
CSTATE_WRCOEFS == 103
DSTATE_START == 200
DSTATE_INHEADER == 201
DSTATE_READY == 202
DSTATE_SCANNING == 205
DSTATE_STOPPING == 210

JPEG_SUSPENDED == 0
JPEG_HEADER_OK == 1
JPEG_HEADER_TABLES_ONLY == 2
JPEG_REACHED_SOS == 1
JPEG_REACHED_EOI == 2
JPEG_ROW_COMPLETED == 3
JPEG_SCAN_COMPLETED == 4

M_SOF0 == 192
M_DHT == 196
M_DAC == 204
M_RST0 == 208
M_RST7 == 215
M_SOI == 216
M_EOI == 217
M_SOS == 218
M_DQT == 219
M_DNL == 220
M_DRI == 221
M_APP0 == 224
M_APP14 == 238
M_APP15 == 239
M_COM == 254
M_TEM == 1

(***************************************************************************)
(* Arithmetic helpers                                                      *)
(***************************************************************************)
Pow2(n) == 2 ^ n

Min(a, b) == IF a < b THEN a ELSE b

Max(a, b) == IF a > b THEN a ELSE b

jdiv_round_up(a, b) == (a + b - 1) \div b

(***************************************************************************)
(* Tables                                                                  *)
(***************************************************************************)
\* jpeg_natural_order[i]: natural-order position of the i'th zigzag element,
\* followed by the 16 extra entries (held as a 1-based tuple: entry i+1).
jpeg_natural_order ==
  << 0,  1,  8, 16,  9,  2,  3, 10,
    17, 24, 32, 25, 18, 11,  4,  5,
    12, 19, 26, 33, 40, 48, 41, 34,
    27, 20, 13,  6,  7, 14, 21, 28,
    35, 42, 49, 56, 57, 50, 43, 36,
    29, 22, 15, 23, 30, 37, 44, 51,
    58, 59, 52, 45, 38, 31, 39, 46,
    53, 60, 61, 54, 47, 55, 62, 63,
    63, 63, 63, 63, 63, 63, 63, 63,
    63, 63, 63, 63, 63, 63, 63, 63 >>

std_luminance_quant_tbl ==
  << 16,  11,  10,  16,  24,  40,  51,  61,
     12,  12,  14,  19,  26,  58,  60,  55,
     14,  13,  16,  24,  40,  57,  69,  56,
     14,  17,  22,  29,  51,  87,  80,  62,
     18,  22,  37,  56,  68, 109, 103,  77,
     24,  35,  55,  64,  81, 104, 113,  92,
     49,  64,  78,  87, 103, 121, 120, 101,
     72,  92,  95,  98, 112, 100, 103,  99 >>

\* The standard Huffman tables (ISO/IEC 10918-1 K.3.3) that
\* jpeg_std_huff_table installs: bits[1..16] and huffval[].
bits_dc_luminance == <<0, 1, 5, 1, 1, 1, 1, 1, 1, 0, 0, 0, 0, 0, 0, 0>>

val_dc_luminance == <<0, 1, 2, 3, 4, 5, 6, 7, 8, 9, 10, 11>>

bits_ac_luminance == <<0, 2, 1, 3, 3, 2, 4, 3, 5, 5, 4, 4, 0, 0, 1, 125>>

val_ac_luminance ==
  << 1, 2, 3, 0, 4, 17, 5, 18, 33, 49, 65, 6, 19, 81, 97, 7,
     34, 113, 20, 50, 129, 145, 161, 8, 35, 66, 177, 193, 21, 82, 209, 240,
     36, 51, 98, 114, 130, 9, 10, 22, 23, 24, 25, 26, 37, 38, 39, 40,
     41, 42, 52, 53, 54, 55, 56, 57, 58, 67, 68, 69, 70, 71, 72, 73,
     74, 83, 84, 85, 86, 87, 88, 89, 90, 99, 100, 101, 102, 103, 104, 105,
     106, 115, 116, 117, 118, 119, 120, 121, 122, 131, 132, 133, 134, 135, 136, 137,
     138, 146, 147, 148, 149, 150, 151, 152, 153, 154, 162, 163, 164, 165, 166, 167,
     168, 169, 170, 178, 179, 180, 181, 182, 183, 184, 185, 186, 194, 195, 196, 197,
     198, 199, 200, 201, 202, 210, 211, 212, 213, 214, 215, 216, 217, 218, 225, 226,
     227, 228, 229, 230, 231, 232, 233, 234, 241, 242, 243, 244, 245, 246, 247, 248,
     249, 250 >>

\* A JHUFF_TBL: bits[1..16] and huffval[0..] (1-based tuple).
jpeg_std_huff_table(isDC) ==
  IF isDC THEN [bits |-> bits_dc_luminance, huffval |-> val_dc_luminance]
  ELSE [bits |-> bits_ac_luminance, huffval |-> val_ac_luminance]

RECURSIVE SumSeq(_, _)
SumSeq(s, n) == IF n = 0 THEN 0 ELSE s[n] + SumSeq(s, n - 1)

\* Figure C.1: code length of the p'th symbol (p from 1), 0 past the end.
RECURSIVE huffsize_of(_, _, _)
huffsize_of(bits, p, l) ==
  IF l > 16 THEN 0
  ELSE IF p <= bits[l] THEN l
  ELSE huffsize_of(bits, p - bits[l], l + 1)

\* Figure C.2: first code of length l (code of the first symbol of length l).
RECURSIVE firstcode(_, _)
firstcode(bits, l) ==
  IF l = 1 THEN 0 ELSE (firstcode(bits, l - 1) + bits[l - 1]) * 2

\* Figure C.2: code of the p'th symbol (p from 1).
huffcode_of(bits, p) ==
  LET l == huffsize_of(bits, p, 1)
  IN firstcode(bits, l) + (p - 1 - SumSeq(bits, l - 1))

\* The counts form a legal code tree: after the codes of each used length
\* the next code still fits in that many bits.
legal_code_tree(bits) ==
  \A l \in 1..16 : bits[l] > 0 => firstcode(bits, l) + bits[l] < Pow2(l)

(***************************************************************************)
(* Compression parameters (jcparam.c)                                      *)
(***************************************************************************)
jpeg_quality_scaling(quality) ==
  LET q1 == IF quality <= 0 THEN 1 ELSE quality
      q2 == IF q1 > 100 THEN 100 ELSE q1
  IN IF q2 < 50 THEN 5000 \div q2 ELSE 200 - q2 * 2

\* One entry of jpeg_add_quant_table with force_baseline.
ScaleQuant(basic, scale_factor) ==
  LET temp == (basic * scale_factor + 50) \div 100
      t1 == IF temp <= 0 THEN 1 ELSE temp
      t2 == IF t1 > 32767 THEN 32767 ELSE t1
  IN IF t2 > 255 THEN 255 ELSE t2

jpeg_add_quant_table(basic_table, scale_factor) ==
  [quantval |-> [i \in 1..DCTSIZE2 |-> ScaleQuant(basic_table[i], scale_factor)],
   sent_table |-> FALSE]

jpeg_set_comp(id, hsamp, vsamp, quant, dctbl, actbl) ==
  [component_id |-> id, h_samp_factor |-> hsamp, v_samp_factor |-> vsamp,
   quant_tbl_no |-> quant, dc_tbl_no |-> dctbl, ac_tbl_no |-> actbl]

\* jpeg_set_colorspace for the colour spaces of the model: the JFIF and
\* Adobe flags and the component list.
jpeg_set_colorspace(colorspace, input_components) ==
  CASE colorspace = "JCS_GRAYSCALE" ->
         [write_JFIF_header |-> TRUE, write_Adobe_marker |-> FALSE,
          comp_info |-> <<jpeg_set_comp(1, 1, 1, 0, 0, 0)>>]
    [] colorspace = "JCS_CMYK" ->
         [write_JFIF_header |-> FALSE, write_Adobe_marker |-> TRUE,
          comp_info |-> <<jpeg_set_comp(67, 1, 1, 0, 0, 0),
                          jpeg_set_comp(77, 1, 1, 0, 0, 0),
                          jpeg_set_comp(89, 1, 1, 0, 0, 0),
                          jpeg_set_comp(75, 1, 1, 0, 0, 0)>>]
    [] OTHER ->
         [write_JFIF_header |-> FALSE, write_Adobe_marker |-> FALSE,
          comp_info |-> [ci \in 1..input_components |->
                           jpeg_set_comp(ci - 1, 1, 1, 0, 0, 0)]]

(***************************************************************************)
(* Marker writer (jcmarker.c).  c is the compression object; c.buf holds   *)
(* the bytes between the start of the output buffer and next_output_byte.  *)
(***************************************************************************)
\* empty_mem_output_buffer: the memory destination cannot be emptied.
empty_mem_output_buffer == FALSE

emit_byte(c, val) ==
  IF c.asserted THEN c
  ELSE [c EXCEPT !.buf = Append(@, val),
                 !.free_in_buffer = @ - 1,
                 !.hiwater = Max(@, Len(c.buf) + 1),
                 !.asserted = (c.free_in_buffer - 1 = 0) /\ ~empty_mem_output_buffer]

emit_marker(c, mark) == emit_byte(emit_byte(c, 255), mark)

emit_2bytes(c, value) ==
  emit_byte(emit_byte(c, (value \div 256) % 256), value % 256)

\* emit_byte over s[i..Len(s)], in order: the bytes go out until the one
\* that fills the buffer, where emit_byte fails its assertion.
emit_bytes(c, s, i) ==
  IF c.asserted \/ i > Len(s) THEN c
  ELSE [c EXCEPT !.buf = @ \o SubSeq(s, i, i + Min(Len(s) - i + 1, c.free_in_buffer) - 1),
                 !.free_in_buffer = @ - Min(Len(s) - i + 1, c.free_in_buffer),
                 !.hiwater = Max(@, Len(c.buf) + Min(Len(s) - i + 1, c.free_in_buffer)),
                 !.asserted = (Len(s) - i + 1 >= c.free_in_buffer)
                              /\ ~empty_mem_output_buffer]

\* The table entries in zigzag order.
zigzag_quantval(qtbl) ==
  [i \in 1..DCTSIZE2 |-> qtbl.quantval[jpeg_natural_order[i] + 1]]

\* emit_dqt without the test of sent_table.
emit_dqt_again(c, index) ==
  [emit_bytes(emit_byte(emit_2bytes(emit_marker(c, M_DQT),
                                    (DCTSIZE2 - 1) + 1 + 1 + 2), index),
              zigzag_quantval(c.quant_tbl_ptrs[index + 1]), 1)
     EXCEPT !.quant_tbl_ptrs[index + 1].sent_table = TRUE]

emit_dqt(c, index) ==
  IF c.quant_tbl_ptrs[index + 1].sent_table THEN c
  ELSE [emit_bytes(emit_byte(emit_2bytes(emit_marker(c, M_DQT),
                                         (DCTSIZE2 - 1) + 1 + 1 + 2), index),
                   zigzag_quantval(c.quant_tbl_ptrs[index + 1]), 1)
          EXCEPT !.quant_tbl_ptrs[index + 1].sent_table = TRUE]

emit_dht(c, index, is_ac) ==
  IF (IF is_ac THEN c.ac_sent[index + 1] ELSE c.dc_sent[index + 1]) THEN c
  ELSE [emit_bytes(
          emit_bytes(
            emit_byte(emit_2bytes(emit_marker(c, M_DHT),
                        SumSeq(jpeg_std_huff_table(~is_ac).bits, 16) + 2 + 1 + 16),
                      IF is_ac THEN index + 16 ELSE index),
            jpeg_std_huff_table(~is_ac).bits, 1),
          jpeg_std_huff_table(~is_ac).huffval, 1)
          EXCEPT !.ac_sent[index + 1] = IF is_ac THEN TRUE ELSE @,
                 !.dc_sent[index + 1] = IF is_ac THEN @ ELSE TRUE]

emit_dri(c) ==
  emit_2bytes(emit_2bytes(emit_marker(c, M_DRI), 4), c.restart_interval)

RECURSIVE emit_sof_comps(_, _)
emit_sof_comps(c, ci) ==
  IF ci > Len(c.comp_info) THEN c
  ELSE emit_sof_comps(
         emit_byte(emit_byte(emit_byte(c, c.comp_info[ci].component_id),
                     c.comp_info[ci].h_samp_factor * 16 + c.comp_info[ci].v_samp_factor),
                   c.comp_info[ci].quant_tbl_no), ci + 1)

emit_sof(c, code) ==
  emit_sof_comps(
    emit_byte(
      emit_2bytes(
        emit_2bytes(
          emit_byte(emit_2bytes(emit_marker(c, code), 3 * Len(c.comp_info) + 2 + 5 + 1),
                    BITS_IN_JSAMPLE),
          c.image_height),
        c.image_width),
      Len(c.comp_info)),
    1)

RECURSIVE emit_sos_comps(_, _)
emit_sos_comps(c, i) ==
  IF i > Len(c.comp_info) THEN c
  ELSE emit_sos_comps(
         emit_byte(emit_byte(c, c.comp_info[i].component_id),
                   c.comp_info[i].dc_tbl_no * 16 + c.comp_info[i].ac_tbl_no), i + 1)

emit_sos(c) ==
  emit_byte(
    emit_byte(
      emit_byte(
        emit_sos_comps(
          emit_byte(emit_2bytes(emit_marker(c, M_SOS), 2 * Len(c.comp_info) + 2 + 1 + 3),
                    Len(c.comp_info)),
          1),
        0),
      DCTSIZE2 - 1),
    0)

\* "JFIF\0", version 1.01, density unit 0, densities 1 x 1, no thumbnail.
emit_jfif_app0(c) ==
  emit_bytes(emit_2bytes(emit_marker(c, M_APP0), 2 + 4 + 1 + 2 + 1 + 2 + 2 + 1 + 1),
             <<74, 70, 73, 70, 0, 1, 1, 0, 0, 1, 0, 1, 0, 0>>, 1)

\* "Adobe", version 100, flags 0, 0, colour transform 0.
emit_adobe_app14(c) ==
  emit_bytes(emit_2bytes(emit_marker(c, M_APP14), 2 + 5 + 2 + 2 + 2 + 1),
             <<65, 100, 111, 98, 101, 0, 100, 0, 0, 0, 0, 0>>, 1)

write_marker_header(c, marker, datalen) ==
  emit_2bytes(emit_marker(c, marker), datalen + 2)

\* write_file_header writing the JFIF marker whatever the colour space.
write_file_header_jfif_always(c) == emit_jfif_app0(c)

\* The two optional markers of write_file_header.
write_file_header_jfif(c) ==
  IF c.write_JFIF_header THEN emit_jfif_app0(c) ELSE c

write_file_header_adobe(c) ==
  IF c.write_Adobe_marker THEN emit_adobe_app14(c) ELSE c

write_file_header(c) ==
  write_file_header_adobe(write_file_header_jfif(
    [emit_marker(c, M_SOI) EXCEPT !.last_restart_interval = 0]))

RECURSIVE emit_dqts(_, _)
emit_dqts(c, ci) ==
  IF ci > Len(c.comp_info) THEN c
  ELSE emit_dqts(emit_dqt(c, c.comp_info[ci].quant_tbl_no), ci + 1)

write_frame_header(c) == emit_sof(emit_dqts(c, 1), M_SOF0)

RECURSIVE emit_dhts(_, _)
emit_dhts(c, i) ==
  IF i > Len(c.comp_info) THEN c
  ELSE emit_dhts(emit_dht(emit_dht(c, c.comp_info[i].dc_tbl_no, FALSE),
                          c.comp_info[i].ac_tbl_no, TRUE), i + 1)

\* The DRI step of write_scan_header: only when the interval changed.
write_scan_header_dri(c) ==
  IF c.restart_interval # c.last_restart_interval
  THEN [emit_dri(c) EXCEPT !.last_restart_interval = c.restart_interval]
  ELSE c

write_scan_header(c) == emit_sos(write_scan_header_dri(emit_dhts(c, 1)))

write_file_trailer(c) == emit_marker(c, M_EOI)

(***************************************************************************)
(* Huffman entropy encoder (jchuff.c).  w is the working_state: the output *)
(* position, the bit buffer and the DC predictions; w.ok is FALSE once an  *)
(* emit had to suspend.                                                    *)
(***************************************************************************)
\* ehufco[sym], ehufsi[sym]; size 0 for a symbol without a code.
jpeg_make_c_derived_tbl(isDC) ==
  LET htbl == jpeg_std_huff_table(isDC)
  IN [sym \in 0..(IF isDC THEN 15 ELSE 255) |->
        LET ps == {p \in 1..Len(htbl.huffval) : htbl.huffval[p] = sym}
        IN IF ps = {} THEN [ehufco |-> 0, ehufsi |-> 0]
           ELSE LET p == CHOOSE q \in ps : TRUE
                IN [ehufco |-> huffcode_of(htbl.bits, p),
                    ehufsi |-> huffsize_of(htbl.bits, p, 1)]]

dc_derived_tbl == jpeg_make_c_derived_tbl(TRUE)

ac_derived_tbl == jpeg_make_c_derived_tbl(FALSE)

\* emit_byte_s without the test for a full buffer.
emit_byte_s_unchecked(w, val) ==
  IF ~w.ok THEN w
  ELSE [w EXCEPT !.buf = Append(@, val),
                 !.free_in_buffer = @ - 1,
                 !.hiwater = Max(@, Len(w.buf) + 1)]

emit_byte_s(w, val) ==
  IF ~w.ok THEN w
  ELSE [w EXCEPT !.buf = Append(@, val),
                 !.free_in_buffer = @ - 1,
                 !.hiwater = Max(@, Len(w.buf) + 1),
                 !.ok = (w.free_in_buffer - 1 # 0)]

\* emit_bits_s without byte stuffing.
emit_bits_stuff_none(w, ch) == w

\* The byte-stuffing step of emit_bits_s: a zero byte after a 0xFF.
emit_bits_stuff(w, ch) == IF ch = 255 THEN emit_byte_s(w, 0) ELSE w

\* The while loop of emit_bits_s: whole bytes leave the 24-bit window, a
\* zero byte is stuffed after each 0xFF.  Only bits 0..23 of put_buffer are
\* ever read, so the left shift keeps those.
RECURSIVE emit_bits_loop(_, _, _)
emit_bits_loop(w, put_buffer, put_bits) ==
  IF ~w.ok THEN w
  ELSE IF put_bits >= 8
  THEN emit_bits_loop(
         emit_bits_stuff(emit_byte_s(w, (put_buffer \div 65536) % 256),
                         (put_buffer \div 65536) % 256),
         (put_buffer % 65536) * 256, put_bits - 8)
  ELSE [w EXCEPT !.put_buffer = put_buffer, !.put_bits = put_bits]

emit_bits_s(w, code, size) ==
  emit_bits_loop(w,
                 (code % Pow2(size)) * Pow2(24 - (size + w.put_bits)) + w.put_buffer,
                 size + w.put_bits)

\* The end of flush_bits_s: the bit buffer is empty after a flush.
flush_bits_reset(w) ==
  IF w.ok THEN [w EXCEPT !.put_buffer = 0, !.put_bits = 0] ELSE w

flush_bits_s(w) == flush_bits_reset(emit_bits_s(w, 127, 7))

\* The end of emit_restart_s: the DC predictions restart at 0.
emit_restart_reset(w) ==
  IF w.ok THEN [w EXCEPT !.last_dc_val = [ci \in DOMAIN @ |-> 0]] ELSE w

emit_restart_s(w, restart_num) ==
  emit_restart_reset(
    emit_byte_s(emit_byte_s(flush_bits_s(w), 255), M_RST0 + restart_num))

\* Number of bits needed for the magnitude temp >= 0.
RECURSIVE NBits(_)
NBits(temp) == IF temp = 0 THEN 0 ELSE 1 + NBits(temp \div 2)

\* The bits of a coefficient v of category nbits.
coef_bits(v, nbits) == (IF v < 0 THEN v - 1 ELSE v) % Pow2(nbits)

coef_nbits(v) == NBits(IF v < 0 THEN -v ELSE v)

\* The zigzag position of the first nonzero coefficient at or after k, or
\* DCTSIZE2 when the rest of the block is zero.
next_nonzero(block, k) ==
  IF \A j \in k..(DCTSIZE2 - 1) : block[jpeg_natural_order[j + 1] + 1] = 0
  THEN DCTSIZE2
  ELSE CHOOSE j \in k..(DCTSIZE2 - 1) :
         /\ block[jpeg_natural_order[j + 1] + 1] # 0
         /\ \A i \in k..(j - 1) : block[jpeg_natural_order[i + 1] + 1] = 0

\* One nonzero AC coefficient v after a run r <= 15: the run/size symbol,
\* then the bits.
encode_ac_coef(w, v, r) ==
  emit_bits_s(emit_bits_s(w, ac_derived_tbl[r * 16 + coef_nbits(v)].ehufco,
                          ac_derived_tbl[r * 16 + coef_nbits(v)].ehufsi),
              coef_bits(v, coef_nbits(v)), coef_nbits(v))

\* The AC loop of encode_one_block at zigzag position k with run r.  A zero
\* coefficient only lengthens the run, so the loop is taken from one nonzero
\* coefficient (at kn) to the next.
RECURSIVE encode_ac_at(_, _, _, _)
encode_ac_at(w, block, kn, r) ==
  IF ~w.ok THEN w
  ELSE IF kn > DCTSIZE2 - 1
  THEN IF r > 0
       THEN emit_bits_s(w, ac_derived_tbl[0].ehufco, ac_derived_tbl[0].ehufsi)
       ELSE w
  ELSE IF r > 15
  THEN encode_ac_at(emit_bits_s(w, ac_derived_tbl[240].ehufco,
                                ac_derived_tbl[240].ehufsi),
                    block, kn, r - 16)
  ELSE encode_ac_at(
         encode_ac_coef(w, block[jpeg_natural_order[kn + 1] + 1], r),
         block, next_nonzero(block, kn + 1),
         next_nonzero(block, kn + 1) - (kn + 1))

\* The AC loop with a run counter of four bits: no ZRL is put out.
encode_ac_run4(w, block, k, r) ==
  encode_ac_at(w, block, next_nonzero(block, k),
               (r + next_nonzero(block, k) - k) % 16)

encode_ac(w, block, k, r) ==
  encode_ac_at(w, block, next_nonzero(block, k), r + next_nonzero(block, k) - k)

\* The DC difference of encode_one_block: the category, then the bits.
encode_dc(w, temp) ==
  IF coef_nbits(temp) # 0
  THEN emit_bits_s(emit_bits_s(w, dc_derived_tbl[coef_nbits(temp)].ehufco,
                               dc_derived_tbl[coef_nbits(temp)].ehufsi),
                   coef_bits(temp, coef_nbits(temp)), coef_nbits(temp))
  ELSE emit_bits_s(w, dc_derived_tbl[0].ehufco, dc_derived_tbl[0].ehufsi)

encode_one_block(w, block, last_dc_val) ==
  encode_ac(encode_dc(w, block[1] - last_dc_val), block, 1, 0)

\* The update of the DC prediction after a block of encode_mcu_huff.
encode_blocks_dc(w, blkn, dc) ==
  IF w.ok THEN [w EXCEPT !.last_dc_val[blkn] = dc] ELSE w

\* The block loop of encode_mcu_huff: block blkn belongs to component blkn
\* (every component is sampled 1 x 1).
RECURSIVE encode_blocks(_, _, _)
encode_blocks(w, MCU_data, blkn) ==
  IF ~w.ok \/ blkn > Len(MCU_data) THEN w
  ELSE encode_blocks(
         encode_blocks_dc(
           encode_one_block(w, MCU_data[blkn], w.last_dc_val[blkn]),
           blkn, MCU_data[blkn][1]),
         MCU_data, blkn + 1)

working_state(c) ==
  [buf |-> c.buf, free_in_buffer |-> c.free_in_buffer, hiwater |-> c.hiwater,
   put_buffer |-> c.put_buffer, put_bits |-> c.put_bits,
   last_dc_val |-> c.last_dc_val, ok |-> TRUE]

\* The restart step numbering every marker RST0.
encode_mcu_restart_zero(c, w) ==
  IF c.restart_interval # 0 /\ c.restarts_to_go = 0
  THEN emit_restart_s(w, 0)
  ELSE w

\* The restart step of encode_mcu_huff.
encode_mcu_restart(c, w) ==
  IF c.restart_interval # 0 /\ c.restarts_to_go = 0
  THEN emit_restart_s(w, c.next_restart_num)
  ELSE w

\* encode_mcu_huff emitting through the saved state instead of a working
\* copy: a failure keeps the bit buffer and the predictions it reached.
encode_mcu_commit_unsaved(c, w) ==
  IF w.ok
  THEN [c |-> [c EXCEPT
                 !.buf = w.buf, !.free_in_buffer = w.free_in_buffer,
                 !.hiwater = w.hiwater,
                 !.put_buffer = w.put_buffer, !.put_bits = w.put_bits,
                 !.last_dc_val = w.last_dc_val,
                 !.restarts_to_go =
                    IF c.restart_interval # 0
                    THEN IF c.restarts_to_go = 0 THEN c.restart_interval - 1
                         ELSE @ - 1
                    ELSE @,
                 !.next_restart_num =
                    IF c.restart_interval # 0 /\ c.restarts_to_go = 0
                    THEN (@ + 1) % 8 ELSE @],
        ok |-> TRUE]
  ELSE [c |-> [c EXCEPT !.hiwater = w.hiwater,
                        !.put_buffer = w.put_buffer, !.put_bits = w.put_bits,
                        !.last_dc_val = w.last_dc_val],
        ok |-> FALSE]

\* The end of encode_mcu_huff: the working state w is committed when every
\* emit went through, with the restart counters; else only the bytes beyond
\* next_output_byte were touched.
encode_mcu_commit(c, w) ==
  IF w.ok
  THEN [c |-> [c EXCEPT
                 !.buf = w.buf, !.free_in_buffer = w.free_in_buffer,
                 !.hiwater = w.hiwater,
                 !.put_buffer = w.put_buffer, !.put_bits = w.put_bits,
                 !.last_dc_val = w.last_dc_val,
                 !.restarts_to_go =
                    IF c.restart_interval # 0
                    THEN IF c.restarts_to_go = 0 THEN c.restart_interval - 1
                         ELSE @ - 1
                    ELSE @,
                 !.next_restart_num =
                    IF c.restart_interval # 0 /\ c.restarts_to_go = 0
                    THEN (@ + 1) % 8 ELSE @],
        ok |-> TRUE]
  ELSE [c |-> [c EXCEPT !.hiwater = w.hiwater], ok |-> FALSE]

\* Returns the compression object and whether the MCU was written.
encode_mcu_huff(c, MCU_data) ==
  encode_mcu_commit(c,
    encode_blocks(encode_mcu_restart(c, working_state(c)), MCU_data, 1))

\* The end of finish_pass_huff: the flush must not suspend.
finish_pass_commit(c, w) ==
  IF ~w.ok THEN [c EXCEPT !.hiwater = w.hiwater, !.asserted = TRUE]
  ELSE [c EXCEPT !.buf = w.buf, !.free_in_buffer = w.free_in_buffer,
                 !.hiwater = w.hiwater,
                 !.put_buffer = w.put_buffer, !.put_bits = w.put_bits]

finish_pass_huff(c) == finish_pass_commit(c, flush_bits_s(working_state(c)))

start_pass_huff(c) ==
  [c EXCEPT !.last_dc_val = [ci \in 1..Len(c.comp_info) |-> 0],
            !.put_buffer = 0, !.put_bits = 0,
            !.restarts_to_go = c.restart_interval,
            !.next_restart_num = 0]

(***************************************************************************)
(* Compression controllers and API (jcprepct.c, jcmainct.c, jccoefct.c,    *)
(* jcmaster.c, jcapistd.c, jcapimin.c, jscdatadst.c)                       *)
(***************************************************************************)
\* The compression object after jpeg_create_compress, jpeg_mem_dest on a
\* buffer of outsize bytes, the image parameters, jpeg_set_defaults and
\* jpeg_set_quality(quality, TRUE).
jpeg_create_compress(image, outsize, quality) ==
  LET cs == jpeg_set_colorspace(image.color_space, image.n_components)
      sf == jpeg_quality_scaling(quality)
  IN [global_state |-> CSTATE_START,
      image_width |-> image.width, image_height |-> image.height,
      write_JFIF_header |-> cs.write_JFIF_header,
      write_Adobe_marker |-> cs.write_Adobe_marker,
      comp_info |-> cs.comp_info,
      quant_tbl_ptrs |-> <<jpeg_add_quant_table(std_luminance_quant_tbl, sf)>>,
      dc_sent |-> <<FALSE>>, ac_sent |-> <<FALSE>>,
      restart_interval |-> 0, restart_in_rows |-> 0,
      next_scanline |-> 0,
      buf |-> <<>>, bufsize |-> outsize, free_in_buffer |-> outsize,
      hiwater |-> 0, outsize |-> outsize,
      last_restart_interval |-> 0, call_pass_startup |-> FALSE,
      MCUs_per_row |-> 0, total_iMCU_rows |-> 0,
      rows_to_go |-> 0, rowgroup_ctr |-> 0, cur_iMCU_row |-> 0,
      suspended |-> FALSE, iMCU_row_num |-> 0, mcu_ctr |-> 0,
      put_buffer |-> 0, put_bits |-> 0, last_dc_val |-> <<>>,
      restarts_to_go |-> 0, next_restart_num |-> 0,
      asserted |-> FALSE]

\* jpeg_abort resets the object for the next image.
jpeg_abort(c) == [c EXCEPT !.global_state = CSTATE_START]

\* term_mem_destination that leaves outsize as jpeg_mem_dest found it.
term_mem_destination_unset(c) == c

term_mem_destination(c) == [c EXCEPT !.outsize = c.bufsize - c.free_in_buffer]

jpeg_suppress_tables(c, suppress) ==
  [c EXCEPT !.quant_tbl_ptrs = [i \in DOMAIN @ |-> [@[i] EXCEPT !.sent_table = suppress]],
            !.dc_sent = [i \in DOMAIN @ |-> suppress],
            !.ac_sent = [i \in DOMAIN @ |-> suppress]]

\* initial_setup of jcmaster.c without the checks of the image dimensions.
initial_setup_c_unchecked(c) ==
  [c EXCEPT !.total_iMCU_rows = jdiv_round_up(c.image_height, 1 * DCTSIZE)]

\* initial_setup of jcmaster.c: the image dimensions are asserted to be
\* positive and at most JPEG_MAX_DIMENSION, then the image size in iMCU
\* rows is derived.
initial_setup_c(c) ==
  IF c.image_height <= 0 \/ c.image_width <= 0
     \/ c.image_height > JPEG_MAX_DIMENSION \/ c.image_width > JPEG_MAX_DIMENSION
  THEN [c EXCEPT !.asserted = TRUE]
  ELSE [c EXCEPT !.total_iMCU_rows = jdiv_round_up(c.image_height, 1 * DCTSIZE)]

per_scan_setup_c(c) ==
  [c EXCEPT !.MCUs_per_row = jdiv_round_up(c.image_width, 1 * DCTSIZE),
            !.restart_interval =
               IF c.restart_in_rows > 0
               THEN Min(c.restart_in_rows * jdiv_round_up(c.image_width, 1 * DCTSIZE),
                        65535)
               ELSE @]

\* start_pass of the preprocessing, main and coefficient controllers.
start_pass_controllers(c) ==
  [c EXCEPT !.rows_to_go = c.image_height,
            !.iMCU_row_num = 0, !.mcu_ctr = 0,
            !.cur_iMCU_row = 0, !.rowgroup_ctr = 0, !.suspended = FALSE]

prepare_for_pass_std(c) ==
  [start_pass_controllers(start_pass_huff(per_scan_setup_c(c)))
     EXCEPT !.call_pass_startup = TRUE]

pass_startup_std(c) ==
  write_scan_header(write_frame_header([c EXCEPT !.call_pass_startup = FALSE]))

finish_pass_master_std(c) == finish_pass_huff(c)

\* jinit_compress_master behind initial_setup, which left c: the modules
\* are set up and the file header is written.
jinit_compress_master_modules(c) ==
  IF c.asserted THEN c ELSE write_file_header(c)

jinit_compress_master(c) == jinit_compress_master_modules(initial_setup_c(c))

\* jpeg_start_compress after jinit_compress_master has written the file
\* header into c.
jpeg_start_compress_pass(c) ==
  IF c.asserted THEN c
  ELSE [prepare_for_pass_std(c)
          EXCEPT !.next_scanline = 0, !.global_state = CSTATE_SCANNING]

jpeg_start_compress(c, write_all_tables) ==
  IF c.global_state # CSTATE_START THEN [c EXCEPT !.asserted = TRUE]
  ELSE jpeg_start_compress_pass(
         jinit_compress_master(
           IF write_all_tables THEN jpeg_suppress_tables(c, FALSE) ELSE c))

jpeg_write_m_header(c, marker, datalen) ==
  IF c.next_scanline # 0
     \/ c.global_state \notin {CSTATE_SCANNING, CSTATE_RAW_OK, CSTATE_WRCOEFS}
  THEN [c EXCEPT !.asserted = TRUE]
  ELSE write_marker_header(c, marker, datalen)

jpeg_write_marker(c, marker, data) ==
  emit_bytes(jpeg_write_m_header(c, marker, Len(data)), data, 1)

\* pre_process_data with one row per row group: rows are taken until the
\* strip buffer holds a full iMCU row; the bottom of the image pads it.
\* p is the compression object with the caller's in_row_ctr.
RECURSIVE pre_process_data(_, _)
pre_process_data(p, in_rows_avail) ==
  IF p.in_row_ctr < in_rows_avail /\ p.c.rowgroup_ctr < DCTSIZE
  THEN IF p.c.rows_to_go - 1 = 0 /\ p.c.rowgroup_ctr + 1 < DCTSIZE
       THEN [c |-> [p.c EXCEPT !.rows_to_go = @ - 1, !.rowgroup_ctr = DCTSIZE],
             in_row_ctr |-> p.in_row_ctr + 1]
       ELSE pre_process_data(
              [c |-> [p.c EXCEPT !.rows_to_go = @ - 1, !.rowgroup_ctr = @ + 1],
               in_row_ctr |-> p.in_row_ctr + 1],
              in_rows_avail)
  ELSE p

\* compress_data: the MCUs of one iMCU row from column mcu_ctr on;
\* mcus[row][col] is the MCU (its blocks) at that iMCU row and column.
\* r is the result of encode_mcu_huff, or the object still to work on.
RECURSIVE compress_data_loop(_, _)
compress_data_loop(r, mcus) ==
  IF ~r.ok THEN r
  ELSE IF r.c.mcu_ctr > r.c.MCUs_per_row - 1
  THEN [c |-> [r.c EXCEPT !.mcu_ctr = 0, !.iMCU_row_num = @ + 1], ok |-> TRUE]
  ELSE compress_data_loop(
         encode_mcu_huff([r.c EXCEPT !.mcu_ctr = @ + 1],
                         mcus[r.c.iMCU_row_num + 1][r.c.mcu_ctr + 1]),
         mcus)

\* compress_data leaving mcu_ctr behind the failed MCU.
compress_data_suspend_skip(r) == r

\* compress_data giving up the iMCU row of the failed MCU.
compress_data_suspend_row(r) ==
  IF r.ok \/ r.c.iMCU_row_num + 1 >= r.c.total_iMCU_rows
  THEN r
  ELSE [r EXCEPT !.c.mcu_ctr = 0, !.c.iMCU_row_num = @ + 1]

\* A failed MCU is the one to resume at.
compress_data_suspend(r) ==
  IF r.ok THEN r ELSE [r EXCEPT !.c.mcu_ctr = @ - 1]

compress_data(c, mcus) ==
  compress_data_suspend(compress_data_loop([c |-> c, ok |-> TRUE], mcus))

\* process_data_simple_main of jcmainct.c: loop until the image or the
\* caller's rows are used up.  p is the object with the caller's in_row_ctr.
process_data_read(p, in_rows_avail) ==
  IF p.c.rowgroup_ctr < DCTSIZE THEN pre_process_data(p, in_rows_avail) ELSE p

\* process_data_simple_main without the step back of the row counter.
process_data_compressed_counted(r, in_row_ctr) ==
  IF ~r.ok
  THEN [c |-> [r.c EXCEPT !.suspended = TRUE],
        in_row_ctr |-> in_row_ctr, again |-> FALSE]
  ELSE IF r.c.suspended
  THEN [c |-> [r.c EXCEPT !.asserted = TRUE],
        in_row_ctr |-> in_row_ctr, again |-> FALSE]
  ELSE [c |-> [r.c EXCEPT !.rowgroup_ctr = 0, !.cur_iMCU_row = @ + 1],
        in_row_ctr |-> in_row_ctr, again |-> TRUE]

\* The outcome r of compress_data on the full strip buffer: a failure backs
\* the caller's row counter up once; a success after a failure is asserted
\* not to happen.
process_data_compressed(r, in_row_ctr) ==
  IF ~r.ok
  THEN IF ~r.c.suspended
       THEN [c |-> [r.c EXCEPT !.suspended = TRUE],
             in_row_ctr |-> in_row_ctr - 1, again |-> FALSE]
       ELSE [c |-> r.c, in_row_ctr |-> in_row_ctr, again |-> FALSE]
  ELSE IF r.c.suspended
  THEN [c |-> [r.c EXCEPT !.asserted = TRUE],
        in_row_ctr |-> in_row_ctr, again |-> FALSE]
  ELSE [c |-> [r.c EXCEPT !.rowgroup_ctr = 0, !.cur_iMCU_row = @ + 1],
        in_row_ctr |-> in_row_ctr, again |-> TRUE]

process_data_step(p, mcus) ==
  IF p.c.rowgroup_ctr # DCTSIZE
  THEN [c |-> p.c, in_row_ctr |-> p.in_row_ctr, again |-> FALSE]
  ELSE process_data_compressed(compress_data(p.c, mcus), p.in_row_ctr)

RECURSIVE process_data_simple_main_c(_, _, _)
process_data_simple_main_c(p, mcus, in_rows_avail) ==
  IF p.again /\ p.c.cur_iMCU_row < p.c.total_iMCU_rows
  THEN process_data_simple_main_c(
         process_data_step(process_data_read(p, in_rows_avail), mcus),
         mcus, in_rows_avail)
  ELSE p

\* The end of jpeg_write_scanlines: next_scanline advances by the rows the
\* main controller took.
jpeg_write_scanlines_done(p) ==
  [c |-> [p.c EXCEPT !.next_scanline = @ + p.in_row_ctr],
   row_ctr |-> p.in_row_ctr]

\* jpeg_write_scanlines after the delayed pass startup.
jpeg_write_scanlines_rows(c, mcus, num_lines) ==
  IF c.asserted THEN [c |-> c, row_ctr |-> 0]
  ELSE jpeg_write_scanlines_done(
         process_data_simple_main_c(
           [c |-> c, in_row_ctr |-> 0, again |-> TRUE], mcus,
           Min(num_lines, c.image_height - c.next_scanline)))

\* Returns the compression object and the number of lines written.
jpeg_write_scanlines(c, mcus, num_lines) ==
  IF c.global_state # CSTATE_SCANNING
  THEN [c |-> [c EXCEPT !.asserted = TRUE], row_ctr |-> 0]
  ELSE jpeg_write_scanlines_rows(
         IF c.call_pass_startup THEN pass_startup_std(c) ELSE c,
         mcus, num_lines)

\* The end of jpeg_finish_compress.
jpeg_finish_compress_term(c) ==
  IF c.asserted THEN c ELSE jpeg_abort(term_mem_destination(c))

jpeg_finish_compress(c) ==
  IF c.global_state \notin {CSTATE_SCANNING, CSTATE_RAW_OK, CSTATE_WRCOEFS}
  THEN [c EXCEPT !.asserted = TRUE]
  ELSE IF c.global_state # CSTATE_WRCOEFS /\ c.next_scanline < c.image_height
  THEN [c EXCEPT !.asserted = TRUE]
  ELSE jpeg_finish_compress_term(write_file_trailer(finish_pass_master_std(c)))

(***************************************************************************)
(* jsc_compress.c and the application driving the compressor               *)
(***************************************************************************)
\* Bounds of the compression scenarios.
MaxWidth == 16
MaxHeight == 32
MaxSections == 3
MaxCap == 420
CapStride == 13
MaxPattern == 3
MaxCalls == 4
MaxLines == 1
Quality == 75

set_restart_sections(c, n_restart_sections) ==
  IF n_restart_sections > 1
  THEN LET MCU_rows_in_scan == jdiv_round_up(c.image_width, 1 * DCTSIZE)
       IN [c EXCEPT !.restart_in_rows = jdiv_round_up(MCU_rows_in_scan, n_restart_sections)]
  ELSE c

\* The JSC comment marker payload 'J','S','C',0.
utext == <<74, 83, 67, 0>>

JscImage(width, height, n_components, color_space) ==
  [width |-> width, height |-> height,
   n_components |-> n_components, color_space |-> color_space]

\* Images given to the compressor: whole-block sizes, grayscale at every
\* size and one CMYK image.
Images ==
  {JscImage(w, h, 1, "JCS_GRAYSCALE") :
     w \in {x \in 1..MaxWidth : x % DCTSIZE = 0},
     h \in {y \in 1..MaxHeight : y % DCTSIZE = 0 /\ (y = DCTSIZE \/ y % (2 * DCTSIZE) = 0)}}
  \cup {JscImage(DCTSIZE, DCTSIZE, 4, "JCS_CMYK")}

Capacities == {n \in 1..MaxCap : n % CapStride = 1}

\* Quantized coefficient blocks in natural order, standing for the output
\* of colour conversion, forward DCT and quantization of the image data.
CoefBlock(dc, ac_first, ac_last) ==
  [k \in 1..DCTSIZE2 |-> IF k = 1 THEN dc
                         ELSE IF k = 2 THEN ac_first
                         ELSE IF k = DCTSIZE2 THEN ac_last ELSE 0]

PatternBlock(pattern, row, col) ==
  IF pattern = 1 THEN CoefBlock(0, 0, 0)
  ELSE IF pattern = 2
  THEN CoefBlock(IF (row + col) % 2 = 0 THEN 1023 ELSE -1024, 0, 0)
  ELSE CoefBlock(8 * row + col, 5, -1)

\* mcus[row][col] for an image: every block of an MCU holds the same data.
ImageData(image, pattern) ==
  [row \in 1..jdiv_round_up(image.height, DCTSIZE) |->
     [col \in 1..jdiv_round_up(image.width, DCTSIZE) |->
        [ci \in 1..image.n_components |-> PatternBlock(pattern, row, col)]]]

NoDecompress == [global_state |-> 0]
NoCompress == [global_state |-> 0]

\* Positions of buf written between two states of the compression object.
Written(c0, c1) == (Len(c0.buf) + 1)..Len(c1.buf)

Init ==
  /\ \E image \in Images, outsize \in Capacities, pattern \in 1..MaxPattern,
        n \in 0..MaxSections, entry \in {"jsc_compress", "jsc_compress_rst", "api"} :
       /\ entry # "jsc_compress_rst" => n = 0
       /\ cinfo = jpeg_create_compress(image, outsize, Quality)
       /\ app = [entry |-> entry, pc |-> "start", returned |-> FALSE, ret |-> 0,
                 image |-> image, pattern |-> pattern,
                 n_restart_sections |-> IF entry = "jsc_compress"
                                        THEN image.height \div DCTSIZE2 ELSE n,
                 hdr |-> {}, calls |-> 0, started |-> FALSE,
                 scanlines_called |-> FALSE,
                 last |-> "none", lines_asked |-> 0, rows_written |-> 0]
  /\ dinfo = NoDecompress

\* The bytes pass_startup_std writes at the first jpeg_write_scanlines.
StartupWritten(c) ==
  IF c.global_state = CSTATE_SCANNING /\ c.call_pass_startup
  THEN Written(c, pass_startup_std(c)) ELSE {}

\* The bytes write_file_trailer writes in jpeg_finish_compress.
TrailerOf(c) == Written(c, write_file_trailer(c))

TrailerWritten(c) ==
  IF c.global_state = CSTATE_SCANNING /\ c.next_scanline >= c.image_height
  THEN TrailerOf(finish_pass_master_std(c)) ELSE {}

\* jsc_compress_rst up to the comment marker; c is the object after it.
JscStarted(c) ==
  /\ cinfo' = c
  /\ app' = [app EXCEPT !.pc = IF c.asserted THEN "aborted" ELSE "rows",
                        !.hdr = Written(cinfo, c), !.started = TRUE,
                        !.last = "jpeg_write_marker"]

JscStart ==
  /\ app.entry \in {"jsc_compress", "jsc_compress_rst"} /\ app.pc = "start"
  /\ JscStarted(jpeg_write_marker(
                  jpeg_start_compress(
                    set_restart_sections(cinfo, app.n_restart_sections), TRUE),
                  M_COM, utext))
  /\ UNCHANGED dinfo

\* One pass of the scanline loop of jsc_compress_rst; r is what
\* jpeg_write_scanlines returned.
JscRowWritten(r) ==
  /\ cinfo' = r.c
  /\ app' = [app EXCEPT
       !.pc = IF r.c.asserted THEN "aborted"
              ELSE IF r.row_ctr # 1 THEN "done" ELSE "rows",
       !.returned = ~r.c.asserted /\ r.row_ctr # 1,
       !.ret = IF ~r.c.asserted /\ r.row_ctr # 1 THEN -1 ELSE 0,
       !.hdr = @ \cup StartupWritten(cinfo),
       !.scanlines_called = TRUE, !.last = "jpeg_write_scanlines",
       !.lines_asked = 1, !.rows_written = r.row_ctr]

JscWriteRow ==
  /\ app.entry \in {"jsc_compress", "jsc_compress_rst"} /\ app.pc = "rows"
  /\ cinfo.next_scanline < cinfo.image_height
  /\ JscRowWritten(jpeg_write_scanlines(cinfo, ImageData(app.image, app.pattern), 1))
  /\ UNCHANGED dinfo

\* The end of jsc_compress_rst; c is the object after jpeg_finish_compress.
JscFinished(c) ==
  /\ cinfo' = c
  /\ app' = [app EXCEPT
       !.pc = IF c.asserted THEN "aborted" ELSE "done",
       !.returned = ~c.asserted, !.ret = 0,
       !.hdr = @ \cup TrailerWritten(cinfo),
       !.last = "jpeg_finish_compress"]

JscFinish ==
  /\ app.entry \in {"jsc_compress", "jsc_compress_rst"} /\ app.pc = "rows"
  /\ cinfo.next_scanline >= cinfo.image_height
  /\ JscFinished(jpeg_finish_compress(cinfo))
  /\ UNCHANGED dinfo

\* An application calling the library API itself, in any order.
ApiCall == app.entry = "api" /\ ~cinfo.asserted /\ app.calls < MaxCalls

ApiStarted(c) ==
  /\ cinfo' = c
  /\ app' = [app EXCEPT !.calls = @ + 1, !.last = "jpeg_start_compress",
                        !.hdr = @ \cup Written(cinfo, c),
                        !.started = @ \/ ~c.asserted,
                        !.scanlines_called = @ /\ c.asserted]

ApiStartCompress ==
  /\ ApiCall
  /\ ApiStarted(jpeg_start_compress(cinfo, TRUE))
  /\ UNCHANGED dinfo

ApiMarkerWritten(c, call) ==
  /\ cinfo' = c
  /\ app' = [app EXCEPT !.calls = @ + 1, !.last = call,
                        !.hdr = @ \cup Written(cinfo, c)]

ApiWriteMarker ==
  /\ ApiCall
  /\ ApiMarkerWritten(jpeg_write_marker(cinfo, M_COM, utext), "jpeg_write_marker")
  /\ UNCHANGED dinfo

ApiWriteMHeader ==
  /\ ApiCall
  /\ ApiMarkerWritten(jpeg_write_m_header(cinfo, M_COM, 0), "jpeg_write_m_header")
  /\ UNCHANGED dinfo

ApiScanlinesWritten(r, num_lines) ==
  /\ cinfo' = r.c
  /\ app' = [app EXCEPT !.calls = @ + 1, !.last = "jpeg_write_scanlines",
                        !.hdr = @ \cup StartupWritten(cinfo),
                        !.scanlines_called = TRUE,
                        !.lines_asked = num_lines,
                        !.rows_written = r.row_ctr]

ApiWriteScanlines ==
  /\ ApiCall
  /\ \E num_lines \in (0..MaxLines) \cup {cinfo.image_height} :
       ApiScanlinesWritten(
         jpeg_write_scanlines(cinfo, ImageData(app.image, app.pattern), num_lines),
         num_lines)
  /\ UNCHANGED dinfo

ApiFinished(c) ==
  /\ cinfo' = c
  /\ app' = [app EXCEPT !.calls = @ + 1, !.last = "jpeg_finish_compress",
                        !.hdr = @ \cup TrailerWritten(cinfo),
                        !.returned = ~c.asserted]

ApiFinishCompress ==
  /\ ApiCall
  /\ ApiFinished(jpeg_finish_compress(cinfo))
  /\ UNCHANGED dinfo

Next ==
  \/ JscStart
  \/ JscWriteRow
  \/ JscFinish
  \/ ApiStartCompress
  \/ ApiWriteMarker
  \/ ApiWriteMHeader
  \/ ApiWriteScanlines
  \/ ApiFinishCompress

Spec == Init /\ [][Next]_vars

(***************************************************************************)
(* Properties of the compressor                                            *)
(***************************************************************************)
JscCall == app.entry \in {"jsc_compress", "jsc_compress_rst"}

JscReturned(ret) == JscCall /\ app.returned /\ app.ret = ret

RSTn == M_RST0..M_RST7

\* The positions of buf holding entropy-coded data: those the marker writer
\* did not write.
EntropyPos == {i \in 1..Len(cinfo.buf) : i \notin app.hdr}

\* The restart markers inside the entropy-coded data.
RestartPos ==
  {i \in EntropyPos : cinfo.buf[i] = 255 /\ i + 1 \in EntropyPos
                      /\ cinfo.buf[i + 1] \in RSTn}

\* The marker codes of the segments of buf from position i up to the SOS
\* marker; -1 where no marker stands.
RECURSIVE MarkerCodes(_, _)
MarkerCodes(buf, i) ==
  IF i + 1 > Len(buf) THEN <<>>
  ELSE IF buf[i] # 255 THEN <<-1>>
  ELSE IF buf[i + 1] = M_SOS THEN <<M_SOS>>
  ELSE IF buf[i + 1] = M_SOI THEN <<M_SOI>> \o MarkerCodes(buf, i + 2)
  ELSE IF i + 3 > Len(buf) THEN <<-1>>
  ELSE <<buf[i + 1]>> \o MarkerCodes(buf, i + 2 + buf[i + 2] * 256 + buf[i + 3])

EndsWithEOI(buf) ==
  Len(buf) >= 2 /\ buf[Len(buf) - 1] = 255 /\ buf[Len(buf)] = M_EOI

OptionalMarker(present, code) == IF present THEN <<code>> ELSE <<>>

\* C2: for every image and every capacity of at least one byte, jsc_compress
\* and jsc_compress_rst return 0 when the image was compressed and -1 when
\* the compressed image could not fit in the output buffer, wherever in the
\* stream the buffer runs out.
C2_ReturnsZeroOrMinusOne ==
  JscCall =>
    /\ app.pc # "aborted"
    /\ app.returned => app.ret \in {0, -1}
    /\ JscReturned(0) => EndsWithEOI(cinfo.buf)

\* C3: during any sequence of compressor calls the count of free bytes never
\* goes negative and no byte is written at or beyond the end of the output
\* buffer, also when entropy-coded data overflows it.
C3_OutputWithinBuffer ==
  /\ cinfo.free_in_buffer >= 0
  /\ cinfo.hiwater <= cinfo.bufsize
  /\ Len(cinfo.buf) + cinfo.free_in_buffer = cinfo.bufsize

\* An MCU that did not fit: the entropy encoder wrote up to the last byte of
\* the buffer and jsc_compress returned -1.
C3_EntropyDataOverflowed ==
  JscReturned(-1) /\ cinfo.hiwater = cinfo.bufsize /\ cinfo.free_in_buffer > 0

\* C7: in every encoder output, every 0xFF byte of the entropy-coded data is
\* immediately followed by a stuffed 0x00 or by a restart marker code
\* 0xD0..0xD7.
C7_ByteStuffing ==
  \A i \in EntropyPos :
    cinfo.buf[i] = 255 =>
      /\ i + 1 \in EntropyPos
      /\ cinfo.buf[i + 1] = 0 \/ cinfo.buf[i + 1] \in RSTn

\* A complete stream with a stuffed 0xFF and a restart marker in its
\* entropy-coded data.
C7_StuffedAndRestarted ==
  /\ JscReturned(0)
  /\ RestartPos # {}
  /\ \E i \in EntropyPos : cinfo.buf[i] = 255 /\ cinfo.buf[i + 1] = 0

\* C8: jsc_compress_rst with n_restart_sections = N divides the scan into N
\* sections when N > 1 and writes no restart marker when N <= 1, for every
\* image size.
C8_SectionCount ==
  (app.entry = "jsc_compress_rst" /\ JscReturned(0)) =>
    Cardinality(RestartPos) + 1 =
      (IF app.n_restart_sections > 1 THEN app.n_restart_sections ELSE 1)

\* C9 as first stated: every complete stream is SOI, APP0, optional APP14,
\* one DQT, SOF0, one DHT per Huffman table, optional DRI, SOS, the scan
\* with its restart markers, EOI.
C9_LayoutWithoutComment ==
  JscReturned(0) =>
    /\ \E adobe \in BOOLEAN, dri \in BOOLEAN :
         MarkerCodes(cinfo.buf, 1) =
           <<M_SOI, M_APP0>> \o OptionalMarker(adobe, M_APP14)
           \o <<M_DQT, M_SOF0, M_DHT, M_DHT>> \o OptionalMarker(dri, M_DRI)
           \o <<M_SOS>>
    /\ EndsWithEOI(cinfo.buf)

\* C9: every complete stream written by jsc_compress or jsc_compress_rst is
\* SOI, APP0 (JFIF) for a JFIF colour space, APP14 (Adobe) for an Adobe
\* colour space, the COM marker "JSC\0", one DQT per quantization table,
\* SOF0, one DHT per Huffman table, DRI when a restart interval is set, SOS,
\* the scan in which only restart markers occur, EOI.
C9_StreamLayout ==
  JscReturned(0) =>
    /\ MarkerCodes(cinfo.buf, 1) =
         <<M_SOI>> \o OptionalMarker(cinfo.write_JFIF_header, M_APP0)
         \o OptionalMarker(cinfo.write_Adobe_marker, M_APP14)
         \o <<M_COM, M_DQT, M_SOF0, M_DHT, M_DHT>>
         \o OptionalMarker(cinfo.restart_interval > 0, M_DRI) \o <<M_SOS>>
    /\ \E i \in 1..Len(cinfo.buf) :
         SubSeq(cinfo.buf, i, i + 7) = <<255, M_COM, 0, 6>> \o utext
    /\ \A i \in EntropyPos :
         cinfo.buf[i] = 255 => cinfo.buf[i + 1] = 0 \/ cinfo.buf[i + 1] \in RSTn
    /\ EndsWithEOI(cinfo.buf)

\* A complete stream of a CMYK image with a restart interval.
C9_CompleteAdobeStream ==
  JscReturned(0) /\ cinfo.write_Adobe_marker /\ ~cinfo.write_JFIF_header
  /\ cinfo.restart_interval > 0

\* C10: a marker write is accepted only after jpeg_start_compress and before
\* the first jpeg_write_scanlines call; in every other situation, also after
\* any jpeg_write_scanlines call, it is rejected and writes no marker bytes.
C10_MarkerWindow ==
  [][(app.entry = "api" /\ app'.calls = app.calls + 1
      /\ app'.last \in {"jpeg_write_marker", "jpeg_write_m_header"}
      /\ ~(cinfo.global_state = CSTATE_SCANNING /\ ~app.scanlines_called))
     => (cinfo'.asserted /\ cinfo'.buf = cinfo.buf)]_vars

(***************************************************************************)
(* The allocator of the working memory (jscmemstatic.c, jmemmgr.c)         *)
(***************************************************************************)
\* Addresses are offsets from the start of the buffer; NULL is no address.
NULL == -1

\* sizeof(ALIGN_TYPE) and sizeof(my_memory_mgr) of a build with 8-byte
\* doubles and pointers.
SIZEOF_ALIGN_TYPE == 8
SIZEOF_my_memory_mgr == 32

jpeg_give_static_mem(buffer_size_bytes) ==
  [buffer_size_bytes |-> buffer_size_bytes, bytes_used |-> 0,
   bytes_free |-> buffer_size_bytes]

\* jpeg_get_mem_size: the size of the whole buffer, used or free.
jpeg_get_mem_size(c) == c.statmem.buffer_size_bytes

\* jpeg_get_mem: the next sizeofobject bytes of the buffer, or NULL when
\* fewer are free.
jpeg_get_mem_unchecked(statmem, sizeofobject) ==
  [mem |-> statmem.bytes_used,
   statmem |-> [statmem EXCEPT !.bytes_used = @ + sizeofobject,
                               !.bytes_free = @ - sizeofobject]]

\* jpeg_get_mem comparing the request with the whole buffer.
jpeg_get_mem_whole(statmem, sizeofobject) ==
  IF statmem.buffer_size_bytes >= sizeofobject
  THEN [mem |-> statmem.bytes_used,
        statmem |-> [statmem EXCEPT !.bytes_used = @ + sizeofobject,
                                    !.bytes_free = @ - sizeofobject]]
  ELSE [mem |-> NULL, statmem |-> statmem]

jpeg_get_mem(statmem, sizeofobject) ==
  IF statmem.bytes_free >= sizeofobject
  THEN [mem |-> statmem.bytes_used,
        statmem |-> [statmem EXCEPT !.bytes_used = @ + sizeofobject,
                                    !.bytes_free = @ - sizeofobject]]
  ELSE [mem |-> NULL, statmem |-> statmem]

\* The requested size rounded up to a multiple of sizeof(ALIGN_TYPE).
sizeofobject_adjust(sizeofobject) ==
  IF sizeofobject % SIZEOF_ALIGN_TYPE > 0
  THEN sizeofobject + (SIZEOF_ALIGN_TYPE - (sizeofobject % SIZEOF_ALIGN_TYPE))
  ELSE sizeofobject

\* The object with what jpeg_get_mem returned for an object of size bytes:
\* ptr is the address, objects the memory handed out so far.
got_mem(c, r, size) ==
  [c EXCEPT !.statmem = r.statmem, !.ptr = r.mem,
            !.objects = IF r.mem = NULL THEN @
                        ELSE @ \cup {[at |-> r.mem, size |-> size]}]

\* get_mem_std without the assertion on the address.
get_mem_std_unchecked(c, sizeofobject) ==
  got_mem(c, jpeg_get_mem(c.statmem, sizeofobject_adjust(sizeofobject)),
          sizeofobject_adjust(sizeofobject))

\* get_mem_std: the size is rounded up and the address asserted.  The sizes
\* of the model are far below JSIZE_MAX.
get_mem_std_got(c) == IF c.ptr = NULL THEN [c EXCEPT !.asserted = TRUE] ELSE c

get_mem_std(c, sizeofobject) ==
  get_mem_std_got(
    got_mem(c, jpeg_get_mem(c.statmem, sizeofobject_adjust(sizeofobject)),
            sizeofobject_adjust(sizeofobject)))

\* jinit_memory_mgr: the control block is the first object of the buffer;
\* it is written only behind the assertion.
jinit_memory_mgr_got(c) ==
  IF c.ptr = NULL THEN [c EXCEPT !.asserted = TRUE]
  ELSE [c EXCEPT !.mem = c.ptr,
                 !.written = @ \cup {[at |-> c.ptr, size |-> SIZEOF_my_memory_mgr]}]

jinit_memory_mgr(c) ==
  jinit_memory_mgr_got(
    got_mem([c EXCEPT !.mem = NULL],
            jpeg_get_mem(c.statmem, SIZEOF_my_memory_mgr), SIZEOF_my_memory_mgr))

\* A routine of the pipeline fills in the object it has obtained.
object_filled(c, sizeofobject) ==
  IF c.asserted THEN c
  ELSE [c EXCEPT !.written = @ \cup {[at |-> c.ptr, size |-> sizeofobject]}]

\* The objects a routine of the pipeline asks get_mem for, one after the
\* other; an assertion ends the routine.
RECURSIVE get_mem_requests(_, _, _)
get_mem_requests(c, sizes, k) ==
  IF c.asserted \/ k > Len(sizes) THEN c
  ELSE get_mem_requests(object_filled(get_mem_std(c, sizes[k]), sizes[k]),
                        sizes, k + 1)


(***************************************************************************)
(* Decompression: the memory source manager (jdatasrc.c) and the marker    *)
(* reader (jdmarker.c).  d is the decompression object; buf is the input   *)
(* buffer, next_input_byte the number of its bytes already consumed.  A    *)
(* routine that returns a boolean gives [d |-> the object, ok |-> it].     *)
(***************************************************************************)
\* A Huffman table pointer that is NULL.
NoHuffTable == [bits |-> <<>>, huffval |-> <<>>]

\* The sizes of the objects the decoder obtains up to the frame header, of
\* a build with 4-byte JINT, boolean and JSIZE and 8-byte pointers.
SIZEOF_my_marker_reader == 248
SIZEOF_my_input_controller == 48
SIZEOF_jpeg_source_mgr == 56
SIZEOF_JQUANT_TBL == 132
SIZEOF_JHUFF_TBL == 280
SIZEOF_jpeg_component_info == 96

\* The working memory after jpeg_create_decompress and jpeg_mem_src: the
\* control block of the memory manager, the marker reader, the input
\* controller and the source manager, each obtained behind an assertion.
DecArena(mem_size) ==
  get_mem_requests(
    jinit_memory_mgr([statmem |-> jpeg_give_static_mem(mem_size), mem |-> NULL,
                      ptr |-> NULL, objects |-> {}, written |-> {},
                      asserted |-> FALSE]),
    <<SIZEOF_my_marker_reader, SIZEOF_my_input_controller, SIZEOF_jpeg_source_mgr>>,
    1)

\* jpeg_get_mem_quant_table and jpeg_get_mem_huff_table: a table obtained
\* from the working memory through get_mem.
jpeg_get_mem_quant_table(d) ==
  object_filled(get_mem_std(d, SIZEOF_JQUANT_TBL), SIZEOF_JQUANT_TBL)

jpeg_get_mem_huff_table(d) ==
  object_filled(get_mem_std(d, SIZEOF_JHUFF_TBL), SIZEOF_JHUFF_TBL)

\* The object after jpeg_create_decompress and jpeg_mem_src on inbuffer,
\* with working memory of mem_size bytes.
jpeg_CreateDecompress(inbuffer, mem_size) ==
  [global_state |-> DSTATE_START, mem_size |-> mem_size,
   statmem |-> DecArena(mem_size).statmem, mem |-> DecArena(mem_size).mem,
   ptr |-> DecArena(mem_size).ptr, objects |-> DecArena(mem_size).objects,
   written |-> DecArena(mem_size).written, comp_info_mem |-> NULL,
   buf |-> inbuffer, next_input_byte |-> 0, bytes_in_buffer |-> Len(inbuffer),
   saw_SOI |-> FALSE, saw_SOF |-> FALSE, unread_marker |-> 0,
   discarded_bytes |-> 0, next_restart_num |-> 0,
   saw_JFIF_marker |-> FALSE, saw_Adobe_marker |-> FALSE,
   restart_interval |-> 0, data_precision |-> 0,
   image_height |-> 0, image_width |-> 0, num_components |-> 0,
   comp_info |-> <<>>, comps_in_scan |-> 0, cur_comp_info |-> <<>>,
   quant_tbl_ptrs |-> [i \in 0..(NUM_QUANT_TBLS - 1) |-> <<>>],
   dc_huff_tbl_ptrs |-> [i \in 0..(NUM_HUFF_TBLS - 1) |-> NoHuffTable],
   ac_huff_tbl_ptrs |-> [i \in 0..(NUM_HUFF_TBLS - 1) |-> NoHuffTable],
   eoi_reached |-> FALSE, inheaders |-> 1, has_multiple_scans |-> FALSE,
   consume_input |-> "consume_markers", input_scan_number |-> 0,
   total_iMCU_rows |-> 0, MCUs_per_row |-> 0, MCU_rows_per_iMCU_row |-> 0,
   MCU_ctr |-> 0, MCU_vert_offset |-> 0, input_iMCU_row |-> 0,
   max_h_samp_factor |-> 1, max_v_samp_factor |-> 1,
   MCU_membership |-> <<>>,
   dc_derived_tbls |-> [i \in 0..(NUM_HUFF_TBLS - 1) |-> NoHuffTable],
   ac_derived_tbls |-> [i \in 0..(NUM_HUFF_TBLS - 1) |-> NoHuffTable],
   get_buffer |-> <<>>, last_dc_val |-> <<>>, insufficient_data |-> FALSE,
   restarts_to_go |-> 0,
   rowgroup_ctr |-> 0, next_row_out |-> 0,
   output_scanline |-> 0, output_height |-> 0, output_width |-> 0,
   coef |-> <<>>, msg_code |-> "none", resync_loops |-> 0,
   num_warnings |-> [JWRN_HIT_MARKER |-> 0, JWRN_HUFF_BAD_CODE |-> 0],
   asserted |-> DecArena(mem_size).asserted, hung |-> FALSE, unmodelled |-> FALSE]

\* fill_mem_input_buffer has nothing to refill the buffer with.
fill_mem_input_buffer == FALSE

\* skip_input_data_std: the while loop subtracts bytes_in_buffer until the
\* rest fits; with an empty buffer it subtracts nothing and never ends.
skip_input_data_std(d, num_bytes) ==
  IF num_bytes <= 0 THEN d
  ELSE IF d.bytes_in_buffer = 0 THEN [d EXCEPT !.hung = TRUE]
  ELSE [d EXCEPT
          !.next_input_byte = @ + ((num_bytes - 1) % d.bytes_in_buffer) + 1,
          !.bytes_in_buffer = @ - (((num_bytes - 1) % d.bytes_in_buffer) + 1)]

\* The i-th byte after the restart point; INPUT_BYTE reaches it only while
\* bytes_in_buffer >= i, since the buffer is never refilled.
GETJOCTET(d, i) == d.buf[d.next_input_byte + i]

INPUT_2BYTES(d, i) == GETJOCTET(d, i) * 256 + GETJOCTET(d, i + 1)

INPUT_SYNC(d, n) ==
  [d EXCEPT !.next_input_byte = @ + n, !.bytes_in_buffer = @ - n]

\* Whether the scan of next_marker ends at buf[j]: a byte that is neither
\* 0 nor 0xFF right after a 0xFF.
IsMarkerEnd(buf, j) == buf[j - 1] = 255 /\ buf[j] # 255 /\ buf[j] # 0

\* What next_marker adds to discarded_bytes over buf[lo+1..hi]: one for a
\* byte that is not 0xFF, two for a stuffed zero with its 0xFF.
DiscardedBytes(buf, lo, hi) ==
  Cardinality({i \in (lo + 1)..hi : buf[i] # 255})
  + Cardinality({i \in (lo + 2)..hi : buf[i] # 255 /\ buf[i - 1] = 255})

\* The last INPUT_SYNC of that scan: after the last discarded byte.
LastDiscarded(buf, lo, hi) ==
  IF \A i \in (lo + 1)..hi : buf[i] = 255 THEN lo
  ELSE CHOOSE i \in (lo + 1)..hi :
         buf[i] # 255 /\ \A k \in (i + 1)..hi : buf[k] = 255

\* The end of next_marker with the marker code at buf[j]: discarded bytes
\* make it warn, forget the count and return FALSE with the marker unread.
next_marker_found(d, j, discarded) ==
  IF discarded # 0
  THEN [d |-> [INPUT_SYNC(d, LastDiscarded(d.buf, d.next_input_byte, j - 1)
                             - d.next_input_byte)
                 EXCEPT !.discarded_bytes = 0,
                        !.msg_code = "JWRN_EXTRANEOUS_DATA"],
        ok |-> FALSE]
  ELSE [d |-> [INPUT_SYNC(d, j - d.next_input_byte)
                 EXCEPT !.unread_marker = d.buf[j]],
        ok |-> TRUE]

\* next_marker over the unread bytes buf[lo+1..hi], with the scan ending at
\* buf[j].
next_marker_scan(d, lo, j) ==
  next_marker_found(d, j, d.discarded_bytes + DiscardedBytes(d.buf, lo, j - 1))

\* Bytes that are not 0xFF are discarded one by one, runs of 0xFF are
\* swallowed; the scan ends at the first marker code or with the buffer.
next_marker(d) ==
  IF \E j \in (d.next_input_byte + 2)..(d.next_input_byte + d.bytes_in_buffer) :
       IsMarkerEnd(d.buf, j)
  THEN next_marker_scan(d, d.next_input_byte,
         CHOOSE j \in (d.next_input_byte + 2)..(d.next_input_byte + d.bytes_in_buffer) :
           /\ IsMarkerEnd(d.buf, j)
           /\ \A k \in (d.next_input_byte + 2)..(j - 1) : ~IsMarkerEnd(d.buf, k))
  ELSE [d |-> [INPUT_SYNC(d, LastDiscarded(d.buf, d.next_input_byte,
                               d.next_input_byte + d.bytes_in_buffer)
                             - d.next_input_byte)
                 EXCEPT !.discarded_bytes =
                   @ + DiscardedBytes(d.buf, d.next_input_byte,
                                      d.next_input_byte + d.bytes_in_buffer)],
        ok |-> FALSE]

first_marker(d) ==
  IF d.bytes_in_buffer < 2 THEN [d |-> d, ok |-> FALSE]
  ELSE IF GETJOCTET(d, 1) # 255 \/ GETJOCTET(d, 2) # M_SOI
  THEN [d |-> [d EXCEPT !.msg_code = "JERR_NO_SOI"], ok |-> FALSE]
  ELSE [d |-> [INPUT_SYNC(d, 2) EXCEPT !.unread_marker = M_SOI], ok |-> TRUE]

get_soi(d) ==
  IF d.saw_SOI THEN [d |-> [d EXCEPT !.msg_code = "JERR_SOI_DUPLICATE"], ok |-> FALSE]
  ELSE [d |-> [d EXCEPT !.restart_interval = 0, !.saw_JFIF_marker = FALSE,
                        !.saw_Adobe_marker = FALSE, !.saw_SOI = TRUE],
        ok |-> TRUE]

\* skip_variable: the length, then the data skipped by the source manager.
skip_variable(d) ==
  IF d.bytes_in_buffer < 2 THEN [d |-> d, ok |-> FALSE]
  ELSE [d |-> skip_input_data_std(INPUT_SYNC(d, 2), INPUT_2BYTES(d, 1) - 2),
        ok |-> TRUE]

\* examine_app0 and examine_app14 on the numtoread bytes read of the marker.
examine_appn(d, numtoread) ==
  IF d.unread_marker = M_APP0
  THEN [d EXCEPT !.saw_JFIF_marker =
          @ \/ (numtoread >= 14
                /\ <<GETJOCTET(d, 3), GETJOCTET(d, 4), GETJOCTET(d, 5),
                     GETJOCTET(d, 6), GETJOCTET(d, 7)>> = <<74, 70, 73, 70, 0>>)]
  ELSE [d EXCEPT !.saw_Adobe_marker =
          @ \/ (numtoread >= 12
                /\ <<GETJOCTET(d, 3), GETJOCTET(d, 4), GETJOCTET(d, 5),
                     GETJOCTET(d, 6), GETJOCTET(d, 7)>> = <<65, 100, 111, 98, 101>>)]

\* get_interesting_appn at APP0 or APP14: up to APPN_DATA_LEN = 14 bytes are
\* read and examined, the rest is skipped.
get_interesting_appn(d) ==
  IF d.bytes_in_buffer < 2 THEN [d |-> d, ok |-> FALSE]
  ELSE IF d.bytes_in_buffer < 2 + Min(14, Max(INPUT_2BYTES(d, 1) - 2, 0))
  THEN [d |-> d, ok |-> FALSE]
  ELSE [d |-> skip_input_data_std(
                INPUT_SYNC(
                  examine_appn(d, Min(14, Max(INPUT_2BYTES(d, 1) - 2, 0))),
                  2 + Min(14, Max(INPUT_2BYTES(d, 1) - 2, 0))),
                (INPUT_2BYTES(d, 1) - 2) - Min(14, Max(INPUT_2BYTES(d, 1) - 2, 0))),
        ok |-> TRUE]

Failed(d) == [d |-> d, ok |-> FALSE]

\* JSC_WARN with a message code, followed by return FALSE.
Warned(d, code) == [d |-> [d EXCEPT !.msg_code = code], ok |-> FALSE]

Done(d) == [d |-> d, ok |-> TRUE]

\* The id given to a component whose id c was already seen: the largest id
\* seen so far plus one.
fake_component_id(ids, c) ==
  IF \E i \in 1..Len(ids) : ids[i] = c
  THEN 1 + (CHOOSE m \in {ids[i] : i \in 1..Len(ids)} :
              \A i \in 1..Len(ids) : ids[i] <= m)
  ELSE c

JSC_WORKING_MEM_SIZE(n_comps, width_pix) == n_comps * (width_pix * 16 + 7000) + 2000

\* The component loop of get_sof: id, sampling factors, quantization table.
RECURSIVE get_sof_comps(_, _)
get_sof_comps(d, ci) ==
  IF ci >= d.num_components
  THEN Done(INPUT_SYNC([d EXCEPT !.saw_SOF = TRUE], 8 + 3 * d.num_components))
  ELSE IF d.bytes_in_buffer < 8 + 3 * ci + 3 THEN Failed(d)
  ELSE IF GETJOCTET(d, 8 + 3 * ci + 2) \div 16 \notin 1..MAX_SAMP_FACTOR
          \/ GETJOCTET(d, 8 + 3 * ci + 2) % 16 \notin 1..MAX_SAMP_FACTOR
          \/ GETJOCTET(d, 8 + 3 * ci + 3) >= NUM_QUANT_TBLS
  THEN Failed(d)
  ELSE get_sof_comps(
         [d EXCEPT !.comp_info = Append(@,
            [component_id |->
               fake_component_id([i \in 1..ci |-> d.comp_info[i].component_id],
                                 GETJOCTET(d, 8 + 3 * ci + 1)),
             h_samp_factor |-> GETJOCTET(d, 8 + 3 * ci + 2) \div 16,
             v_samp_factor |-> GETJOCTET(d, 8 + 3 * ci + 2) % 16,
             quant_tbl_no |-> GETJOCTET(d, 8 + 3 * ci + 3),
             dc_tbl_no |-> 0, ac_tbl_no |-> 0,
             width_in_blocks |-> 0, height_in_blocks |-> 0,
             last_row_height |-> 0, quant_table |-> <<>>])],
         ci + 1)

\* The checks of get_sof on the frame header in the buffer, in their order:
\* the message code of the first that fails.
get_sof_check(d) ==
  IF d.saw_SOF THEN "JERR_SOF_DUPLICATE"
  ELSE IF INPUT_2BYTES(d, 4) <= 0 \/ INPUT_2BYTES(d, 6) <= 0 \/ GETJOCTET(d, 8) <= 0
  THEN "JERR_EMPTY_IMAGE"
  ELSE IF INPUT_2BYTES(d, 1) - 8 # GETJOCTET(d, 8) * 3 THEN "JERR_BAD_LENGTH"
  ELSE IF GETJOCTET(d, 3) # BITS_IN_JSAMPLE THEN "JERR_BAD_PRECISION"
  ELSE IF jpeg_get_mem_size(d) < JSC_WORKING_MEM_SIZE(GETJOCTET(d, 8), INPUT_2BYTES(d, 6))
  THEN "JERR_OUT_OF_MEMORY"
  ELSE "none"

\* get_sof for SOF0: the precision and the dimensions go into the object as
\* they are read, then they are checked.
\* get_sof behind its checks: the component array is obtained once, then
\* filled.
get_sof_array_got(d) ==
  IF d.asserted THEN d ELSE [d EXCEPT !.comp_info_mem = d.ptr]

get_sof_array(d) ==
  IF d.comp_info_mem # NULL THEN d
  ELSE get_sof_array_got(
         object_filled(get_mem_std(d, d.num_components * SIZEOF_jpeg_component_info),
                       d.num_components * SIZEOF_jpeg_component_info))

get_sof_got(d) ==
  IF d.asserted THEN Failed(d) ELSE get_sof_comps([d EXCEPT !.comp_info = <<>>], 0)

\* get_sof obtaining the component array ahead of its checks.
get_sof_late(d) ==
  IF d.bytes_in_buffer < 8 THEN Failed(d)
  ELSE IF get_sof_check(d) # "none"
  THEN Warned(get_sof_array([d EXCEPT !.data_precision = GETJOCTET(d, 3),
                                      !.image_height = INPUT_2BYTES(d, 4),
                                      !.image_width = INPUT_2BYTES(d, 6),
                                      !.num_components = GETJOCTET(d, 8)]),
              get_sof_check(d))
  ELSE get_sof_got(get_sof_array([d EXCEPT !.data_precision = GETJOCTET(d, 3),
                                            !.image_height = INPUT_2BYTES(d, 4),
                                            !.image_width = INPUT_2BYTES(d, 6),
                                            !.num_components = GETJOCTET(d, 8)]))

get_sof(d) ==
  IF d.bytes_in_buffer < 8 THEN Failed(d)
  ELSE IF get_sof_check(d) # "none"
  THEN Warned([d EXCEPT !.data_precision = GETJOCTET(d, 3),
                        !.image_height = INPUT_2BYTES(d, 4),
                        !.image_width = INPUT_2BYTES(d, 6),
                        !.num_components = GETJOCTET(d, 8)],
              get_sof_check(d))
  ELSE get_sof_got(get_sof_array([d EXCEPT !.data_precision = GETJOCTET(d, 3),
                                            !.image_height = INPUT_2BYTES(d, 4),
                                            !.image_width = INPUT_2BYTES(d, 6),
                                            !.num_components = GETJOCTET(d, 8)]))

\* The end of get_sos after n components: Ss, Se, Ah/Al, then the check of
\* the MCU size.
get_sos_params(d, n) ==
  IF d.bytes_in_buffer < 3 + 2 * n + 3 THEN Failed(d)
  ELSE IF SumSeq([i \in 1..n |-> d.comp_info[d.cur_comp_info[i]].h_samp_factor
                                 * d.comp_info[d.cur_comp_info[i]].v_samp_factor], n)
          > D_MAX_BLOCKS_IN_MCU
  THEN Warned([d EXCEPT !.next_restart_num = 0,
                        !.input_scan_number = IF n # 0 THEN @ + 1 ELSE @],
              "JERR_BAD_MCU_SIZE")
  ELSE Done(INPUT_SYNC([d EXCEPT !.next_restart_num = 0,
                                 !.input_scan_number = IF n # 0 THEN @ + 1 ELSE @],
                       3 + 2 * n + 3))

\* The component of comp_info with the id c.
comp_with_id(d, c) ==
  CHOOSE ci \in 1..Len(d.comp_info) :
    /\ d.comp_info[ci].component_id = c
    /\ \A k \in 1..(ci - 1) : d.comp_info[k].component_id # c

\* The component loop of get_sos: the id and the Huffman tables to use.
RECURSIVE get_sos_comps(_, _)
get_sos_comps(d, i) ==
  IF i >= d.comps_in_scan THEN get_sos_params(d, d.comps_in_scan)
  ELSE IF d.bytes_in_buffer < 3 + 2 * i + 1 THEN Failed(d)
  ELSE LET c == fake_component_id(
                  [k \in 1..i |-> d.comp_info[d.cur_comp_info[k]].component_id],
                  GETJOCTET(d, 3 + 2 * i + 1))
       IN IF \A ci \in 1..Len(d.comp_info) : d.comp_info[ci].component_id # c
          THEN Warned(d, "JERR_BAD_COMPONENT_ID")
          ELSE IF d.bytes_in_buffer < 3 + 2 * i + 2 THEN Failed(d)
          ELSE IF GETJOCTET(d, 3 + 2 * i + 2) \div 16 >= NUM_HUFF_TBLS
                  \/ GETJOCTET(d, 3 + 2 * i + 2) % 16 >= NUM_HUFF_TBLS
          THEN Warned(d, "JERR_NO_HUFF_TABLE")
          ELSE get_sos_comps(
                 [d EXCEPT !.cur_comp_info = Append(@, comp_with_id(d, c)),
                           !.comp_info[comp_with_id(d, c)].dc_tbl_no =
                              GETJOCTET(d, 3 + 2 * i + 2) \div 16,
                           !.comp_info[comp_with_id(d, c)].ac_tbl_no =
                              GETJOCTET(d, 3 + 2 * i + 2) % 16],
                 i + 1)

\* get_sos letting a scan header with no components through.
get_sos_pseudo(d) ==
  IF ~d.saw_SOF THEN Warned(d, "JERR_SOF_BEFORE")
  ELSE IF d.bytes_in_buffer < 3 THEN Failed(d)
  ELSE IF INPUT_2BYTES(d, 1) # GETJOCTET(d, 3) * 2 + 6
          \/ GETJOCTET(d, 3) > MAX_COMPS_IN_SCAN
  THEN Warned(d, "JERR_BAD_LENGTH")
  ELSE get_sos_comps([d EXCEPT !.comps_in_scan = GETJOCTET(d, 3),
                               !.cur_comp_info = <<>>],
                     0)

get_sos(d) ==
  IF ~d.saw_SOF THEN Warned(d, "JERR_SOF_BEFORE")
  ELSE IF d.bytes_in_buffer < 3 THEN Failed(d)
  ELSE IF INPUT_2BYTES(d, 1) # GETJOCTET(d, 3) * 2 + 6
          \/ GETJOCTET(d, 3) > MAX_COMPS_IN_SCAN \/ GETJOCTET(d, 3) = 0
  THEN Warned(d, "JERR_BAD_LENGTH")
  ELSE get_sos_comps([d EXCEPT !.comps_in_scan = GETJOCTET(d, 3),
                               !.cur_comp_info = <<>>],
                     0)

\* The zigzag position (from 1) of the coefficient at natural position k
\* (from 1): the inverse of jpeg_natural_order.
zigzag_of_natural ==
  [k \in 1..DCTSIZE2 |-> CHOOSE i \in 1..DCTSIZE2 : jpeg_natural_order[i] = k - 1]

\* The table loop of get_dht: length bytes of the marker are left, p bytes
\* were read.  A table is its 16 counts and as many symbols as they add up
\* to; symbols of a DC table are at most 15.
RECURSIVE get_dht_tables(_, _, _)

\* The table is copied into its slot, which is obtained when it is NULL.
get_dht_store(d, is_ac, index, table, length, p) ==
  IF d.asserted THEN Failed(d)
  ELSE IF is_ac
  THEN get_dht_tables([d EXCEPT !.ac_huff_tbl_ptrs[index] = table], length, p)
  ELSE get_dht_tables([d EXCEPT !.dc_huff_tbl_ptrs[index] = table], length, p)

get_dht_slot(d, is_ac, index, table, length, p) ==
  get_dht_store(IF (IF is_ac THEN d.ac_huff_tbl_ptrs[index]
                    ELSE d.dc_huff_tbl_ptrs[index]) = NoHuffTable
                THEN jpeg_get_mem_huff_table(d) ELSE d,
                is_ac, index, table, length, p)

get_dht_tables(d, length, p) ==
  IF length <= 16
  THEN IF length # 0 THEN Warned(d, "JERR_BAD_LENGTH") ELSE Done(INPUT_SYNC(d, p))
  ELSE IF d.bytes_in_buffer < p + 17 THEN Failed(d)
  ELSE LET index == GETJOCTET(d, p + 1)
           bits == [i \in 1..16 |-> GETJOCTET(d, p + 1 + i)]
           count == SumSeq(bits, 16)
           huffval == [i \in 1..count |-> GETJOCTET(d, p + 17 + i)]
       IN IF count > 256 \/ count > length - 17 THEN Warned(d, "JERR_BAD_HUFF_TABLE")
          ELSE IF d.bytes_in_buffer < p + 17 + count THEN Failed(d)
          ELSE IF (index \div 16) % 2 = 1
          THEN IF index - 16 >= NUM_HUFF_TBLS THEN Warned(d, "JERR_DHT_INDEX")
               ELSE get_dht_slot(d, TRUE, index - 16,
                                 [bits |-> bits, huffval |-> huffval],
                                 length - 17 - count, p + 17 + count)
          ELSE IF \E i \in 1..count : huffval[i] > 15
          THEN Warned(d, "JERR_JSC_BAD_HUFFVALS")
          ELSE IF index >= NUM_HUFF_TBLS THEN Warned(d, "JERR_DHT_INDEX")
          ELSE get_dht_slot(d, FALSE, index,
                            [bits |-> bits, huffval |-> huffval],
                            length - 17 - count, p + 17 + count)

get_dht(d) ==
  IF d.bytes_in_buffer < 2 THEN Failed(d)
  ELSE get_dht_tables(d, INPUT_2BYTES(d, 1) - 2, 2)

\* The table loop of get_dqt: a table is its number and 64 bytes in zigzag
\* order; a table defined twice or of 16-bit precision is refused.
RECURSIVE get_dqt_tables(_, _, _)

\* The table read into the slot just obtained.
get_dqt_table(d, length, p) ==
  IF d.asserted THEN Failed(d)
  ELSE IF GETJOCTET(d, p + 1) \div 16 # 0 \/ length - 1 < DCTSIZE2
  THEN Warned(d, "JERR_JSC_NOSUPPORT")
  ELSE IF d.bytes_in_buffer < p + 1 + DCTSIZE2 THEN Failed(d)
  ELSE get_dqt_tables(
         [d EXCEPT !.quant_tbl_ptrs[GETJOCTET(d, p + 1) % 16] =
            [k \in 1..DCTSIZE2 |-> GETJOCTET(d, p + 1 + zigzag_of_natural[k])]],
         length - 1 - DCTSIZE2, p + 1 + DCTSIZE2)

get_dqt_tables(d, length, p) ==
  IF length <= 0 THEN Done(INPUT_SYNC(d, p))
  ELSE IF d.bytes_in_buffer < p + 1 THEN Failed(d)
  ELSE IF GETJOCTET(d, p + 1) % 16 >= NUM_QUANT_TBLS THEN Warned(d, "JERR_DQT_INDEX")
  ELSE IF d.quant_tbl_ptrs[GETJOCTET(d, p + 1) % 16] # <<>>
  THEN Warned(d, "JERR_JSC_DUPLICATE_QUANT_TBL")
  ELSE get_dqt_table(jpeg_get_mem_quant_table(d), length, p)

get_dqt(d) ==
  IF d.bytes_in_buffer < 2 THEN Failed(d)
  ELSE get_dqt_tables(d, INPUT_2BYTES(d, 1) - 2, 2)

get_dri(d) ==
  IF d.bytes_in_buffer < 2 THEN Failed(d)
  ELSE IF INPUT_2BYTES(d, 1) # 4 THEN Warned(d, "JERR_BAD_LENGTH")
  ELSE IF d.bytes_in_buffer < 4 THEN Failed(d)
  ELSE Done(INPUT_SYNC([d EXCEPT !.restart_interval = INPUT_2BYTES(d, 3)], 4))

\* The switch of read_markers on unread_marker for the markers with
\* parameters; RSTn and TEM have none.
process_marker(d) ==
  CASE d.unread_marker = M_SOI -> get_soi(d)
    [] d.unread_marker = M_SOF0 -> get_sof(d)
    [] d.unread_marker = M_DHT -> get_dht(d)
    [] d.unread_marker = M_DQT -> get_dqt(d)
    [] d.unread_marker = M_DRI -> get_dri(d)
    [] d.unread_marker \in {M_APP0, M_APP14} -> get_interesting_appn(d)
    [] d.unread_marker \in ((M_APP0 + 1)..M_APP15) \ {M_APP14} -> skip_variable(d)
    [] d.unread_marker \in {M_COM, M_DAC, M_DNL} -> skip_variable(d)
    [] d.unread_marker \in (M_RST0..M_RST7) \cup {M_TEM} -> Done(d)
    [] OTHER -> Failed(d)

\* The end of one pass of the loop of read_markers: r is what the marker's
\* routine returned.  done is set when the pass returns, with val.
read_markers_processed(r) ==
  IF ~r.ok \/ r.d.hung \/ r.d.asserted
  THEN [d |-> r.d, val |-> JPEG_SUSPENDED, done |-> TRUE]
  ELSE [d |-> [r.d EXCEPT !.unread_marker = 0], val |-> JPEG_SUSPENDED,
        done |-> FALSE]

\* One pass of the loop with the marker code in unread_marker.
read_markers_switch(d) ==
  IF d.unread_marker = M_SOS
  THEN IF get_sos(d).ok
       THEN [d |-> [get_sos(d).d EXCEPT !.unread_marker = 0],
             val |-> JPEG_REACHED_SOS, done |-> TRUE]
       ELSE [d |-> get_sos(d).d, val |-> JPEG_SUSPENDED, done |-> TRUE]
  ELSE IF d.unread_marker = M_EOI
  THEN [d |-> [d EXCEPT !.unread_marker = 0], val |-> JPEG_REACHED_EOI,
        done |-> TRUE]
  ELSE read_markers_processed(process_marker(d))

\* r is what first_marker or next_marker returned.
read_markers_found(r) ==
  IF ~r.ok THEN [d |-> r.d, val |-> JPEG_SUSPENDED, done |-> TRUE]
  ELSE read_markers_switch(r.d)

\* One pass of the loop of read_markers.
read_markers_pass(st) ==
  IF st.d.unread_marker = 0
  THEN read_markers_found(IF ~st.d.saw_SOI THEN first_marker(st.d)
                          ELSE next_marker(st.d))
  ELSE read_markers_switch(st.d)

RECURSIVE read_markers_passes(_, _)

read_markers_rest(st, n) ==
  IF st.done THEN st ELSE read_markers_passes(st, n)

\* Up to n passes of the loop, the first half of them before the second.
read_markers_passes(st, n) ==
  IF n <= 1 THEN read_markers_pass(st)
  ELSE read_markers_rest(read_markers_passes(st, n \div 2), n - n \div 2)

\* What read_markers returns: the value of the pass that returned, or, the
\* loop limit reached, the assertion behind the loop.
read_markers_return(st) ==
  IF st.done THEN [d |-> st.d, val |-> st.val]
  ELSE [d |-> [st.d EXCEPT !.asserted = TRUE], val |-> JPEG_SUSPENDED]

\* read_markers: one pass per marker until SOS, EOI or a failure; the loop
\* limit of 1000 passes ends in an assertion.  i passes were made.
read_markers(d, i) ==
  read_markers_return(
    read_markers_passes([d |-> d, val |-> JPEG_SUSPENDED, done |-> FALSE],
                        1000 - i))

\* The decision loop scanning past every restart within two counts of the
\* desired one.
resync_pass_near(st, desired) ==
  IF st.d.unread_marker < M_SOF0
     \/ st.d.unread_marker \in {M_RST0 + ((desired + k) % 8) : k \in {1, 2, 6, 7}}
  THEN [d |-> [next_marker(st.d).d EXCEPT !.resync_loops = @ + 1],
        ok |-> next_marker(st.d).ok, done |-> ~next_marker(st.d).ok]
  ELSE IF st.d.unread_marker \notin M_RST0..M_RST7
  THEN [d |-> [st.d EXCEPT !.resync_loops = @ + 1], ok |-> TRUE, done |-> TRUE]
  ELSE [d |-> [st.d EXCEPT !.resync_loops = @ + 1, !.unread_marker = 0],
        ok |-> TRUE, done |-> TRUE]

\* One pass of the decision loop of jpeg_resync_to_restart; st.done is set
\* when the pass returns. A marker below SOF0 or one of the two restarts
\* before the desired one is scanned past (action 2), a restart too far
\* away is dropped (action 1), any other marker is left unread (action 3).
resync_pass(st, desired) ==
  IF st.d.unread_marker < M_SOF0
     \/ st.d.unread_marker \in {M_RST0 + ((desired + 7) % 8),
                                M_RST0 + ((desired + 6) % 8)}
  THEN [d |-> [next_marker(st.d).d EXCEPT !.resync_loops = @ + 1],
        ok |-> next_marker(st.d).ok, done |-> ~next_marker(st.d).ok]
  ELSE IF st.d.unread_marker \notin M_RST0..M_RST7
          \/ st.d.unread_marker \in {M_RST0 + ((desired + 1) % 8),
                                     M_RST0 + ((desired + 2) % 8)}
  THEN [d |-> [st.d EXCEPT !.resync_loops = @ + 1], ok |-> TRUE, done |-> TRUE]
  ELSE [d |-> [st.d EXCEPT !.resync_loops = @ + 1, !.unread_marker = 0],
        ok |-> TRUE, done |-> TRUE]

RECURSIVE resync_passes(_, _, _)

resync_passes_rest(st, desired, n) ==
  IF st.done THEN st ELSE resync_passes(st, desired, n)

\* Up to n passes of the loop, which has no limit of its own: every pass
\* that goes on consumes input.
resync_passes(st, desired, n) ==
  IF n <= 1 THEN resync_pass(st, desired)
  ELSE resync_passes_rest(resync_passes(st, desired, n \div 2), desired, n - n \div 2)

\* What jpeg_resync_to_restart returns when its loop is left.
resync_return(st) == [d |-> st.d, ok |-> st.ok]

\* jpeg_resync_to_restart with the marker found in unread_marker;
\* resync_loops counts the passes of its loop in this call.
jpeg_resync_to_restart(d, desired) ==
  resync_return(
    resync_passes([d |-> [d EXCEPT !.msg_code = "JWRN_MUST_RESYNC",
                                   !.resync_loops = 0],
                   ok |-> TRUE, done |-> FALSE],
                  desired, d.bytes_in_buffer + 1))

\* The end of read_restart_marker; r is what next_marker returned, or the
\* object with a marker already read.
read_restart_marker_found(r) ==
  IF ~r.ok THEN r
  ELSE IF r.d.unread_marker = M_RST0 + r.d.next_restart_num
  THEN Done([r.d EXCEPT !.unread_marker = 0,
                        !.next_restart_num = (@ + 1) % 8])
  ELSE IF jpeg_resync_to_restart(r.d, r.d.next_restart_num).ok
  THEN Done([jpeg_resync_to_restart(r.d, r.d.next_restart_num).d
               EXCEPT !.next_restart_num = (@ + 1) % 8])
  ELSE jpeg_resync_to_restart(r.d, r.d.next_restart_num)

\* read_restart_marker expecting the same restart number every time.
read_restart_marker_same(d) ==
  [read_restart_marker_found(IF d.unread_marker = 0 THEN next_marker(d) ELSE Done(d))
     EXCEPT !.d.next_restart_num = d.next_restart_num]

read_restart_marker(d) ==
  read_restart_marker_found(IF d.unread_marker = 0 THEN next_marker(d) ELSE Done(d))

(***************************************************************************)
(* Decompression: the Huffman entropy decoder (jdhuff.c)                   *)
(*                                                                         *)
(* The bit buffer get_buffer is held as the sequence of its bits_left      *)
(* unused bits, next bit first.  A decoding step works on a record         *)
(* [d, ok, s, k, block]: the object with the working copy of its source    *)
(* position and bit buffer, FALSE in ok once a step had to suspend, the    *)
(* symbol decoded last, the zigzag position and the block under            *)
(* construction.                                                           *)
(***************************************************************************)
HUFF_LOOKAHEAD == 8

BIT_BUF_SIZE == 32

MIN_GET_BITS == BIT_BUF_SIZE - 7

ByteBits == [c \in 0..255 |-> [i \in 1..8 |-> (c \div Pow2(8 - i)) % 2]]

\* The value of bits lo..hi of a bit sequence.
RECURSIVE BitsRange(_, _, _)
BitsRange(bits, lo, hi) ==
  IF lo > hi THEN 0
  ELSE IF lo = hi THEN bits[lo]
  ELSE BitsRange(bits, lo, (lo + hi) \div 2) * Pow2(hi - (lo + hi) \div 2)
       + BitsRange(bits, (lo + hi) \div 2 + 1, hi)

BitsVal(bits, n) == BitsRange(bits, 1, n)

\* jpeg_make_d_derived_tbl: maxcode[1..17] with its sentinel, valoffset,
\* mincode (the code of the first symbol of each length, from which the
\* lookahead entries are filled) and the table it was made of.  ok is FALSE
\* where the routine asserts: table overrun, a code that does not fit its
\* length, a DC symbol above 15.
jpeg_make_d_derived_tbl(htbl, isDC) ==
  [pub |-> htbl,
   maxcode |-> [l \in 1..17 |->
                  IF l = 17 THEN 1048575
                  ELSE IF htbl.bits[l] > 0
                  THEN firstcode(htbl.bits, l) + htbl.bits[l] - 1 ELSE -1],
   valoffset |-> [l \in 1..16 |->
                    IF htbl.bits[l] > 0
                    THEN SumSeq(htbl.bits, l - 1) - firstcode(htbl.bits, l) ELSE 0],
   mincode |-> [l \in 1..16 |-> firstcode(htbl.bits, l)],
   ok |-> /\ SumSeq(htbl.bits, 16) <= 256
          /\ legal_code_tree(htbl.bits)
          /\ isDC => \A i \in 1..Len(htbl.huffval) : htbl.huffval[i] <= 15]

\* look_nbits[look]: the length of the code of at most HUFF_LOOKAHEAD bits
\* that starts the 8 bits look, 0 if the code is longer.
look_nbits(dtbl, look) ==
  IF \E l \in 1..HUFF_LOOKAHEAD :
       /\ dtbl.maxcode[l] >= look \div Pow2(HUFF_LOOKAHEAD - l)
       /\ dtbl.mincode[l] <= look \div Pow2(HUFF_LOOKAHEAD - l)
  THEN CHOOSE l \in 1..HUFF_LOOKAHEAD :
         /\ dtbl.maxcode[l] >= look \div Pow2(HUFF_LOOKAHEAD - l)
         /\ dtbl.mincode[l] <= look \div Pow2(HUFF_LOOKAHEAD - l)
  ELSE 0

\* look_sym[look] for a nonzero look_nbits[look] = nb.
look_sym(dtbl, look, nb) ==
  dtbl.pub.huffval[look \div Pow2(HUFF_LOOKAHEAD - nb) + dtbl.valoffset[nb] + 1]

\* The no_more_bytes part of jpeg_fill_bit_buffer: behind a marker the
\* buffer is filled up with zero bits if the request needs them.
no_more_bytes(d, nbits) ==
  IF nbits > Len(d.get_buffer)
  THEN [d EXCEPT !.num_warnings.JWRN_HIT_MARKER =
                   IF d.insufficient_data THEN @ ELSE @ + 1,
                 !.insufficient_data = TRUE,
                 !.get_buffer = @ \o [i \in 1..(MIN_GET_BITS - Len(@)) |-> 0]]
  ELSE d

\* The byte c loaded into get_buffer after n bytes of input.
load_byte(d, n, c) == [INPUT_SYNC(d, n) EXCEPT !.get_buffer = @ \o ByteBits[c]]

\* The while loop of jpeg_fill_bit_buffer; reading past the end of the
\* buffer is the FALSE return.
RECURSIVE fill_bit_buffer_loop(_, _)
\* After a 0xFF and its padding 0xFFs, the byte at j: a stuffed zero or a marker.
fill_bit_buffer_ff(d, j, nbits) ==
  IF GETJOCTET(d, j) = 0 THEN fill_bit_buffer_loop(load_byte(d, j, 255), nbits)
  ELSE Done(no_more_bytes([INPUT_SYNC(d, j) EXCEPT !.unread_marker = GETJOCTET(d, j)],
                          nbits))

fill_bit_buffer_loop(d, nbits) ==
  IF Len(d.get_buffer) >= MIN_GET_BITS THEN Done(d)
  ELSE IF d.bytes_in_buffer = 0 THEN Failed(d)
  ELSE IF GETJOCTET(d, 1) # 255
  THEN fill_bit_buffer_loop(load_byte(d, 1, GETJOCTET(d, 1)), nbits)
  ELSE IF \A j \in 2..d.bytes_in_buffer : GETJOCTET(d, j) = 255 THEN Failed(d)
  ELSE fill_bit_buffer_ff(
         d,
         CHOOSE j \in 2..d.bytes_in_buffer :
           GETJOCTET(d, j) # 255 /\ \A i \in 2..(j - 1) : GETJOCTET(d, i) = 255,
         nbits)

\* jpeg_fill_bit_buffer warning of every request it fills with zero bits.
jpeg_fill_bit_buffer_warning(d, nbits) ==
  IF d.unread_marker = 0 THEN fill_bit_buffer_loop(d, nbits)
  ELSE Done([no_more_bytes(d, nbits)
               EXCEPT !.num_warnings.JWRN_HIT_MARKER =
                        IF nbits > Len(d.get_buffer)
                        THEN d.num_warnings.JWRN_HIT_MARKER + 1 ELSE @])

\* jpeg_fill_bit_buffer over a source that ends its input with a made-up
\* EOI marker.
jpeg_fill_bit_buffer_eoi(d, nbits) ==
  IF d.unread_marker # 0 THEN Done(no_more_bytes(d, nbits))
  ELSE IF fill_bit_buffer_loop(d, nbits).ok THEN fill_bit_buffer_loop(d, nbits)
  ELSE Done(no_more_bytes([d EXCEPT !.unread_marker = M_EOI], nbits))

jpeg_fill_bit_buffer(d, nbits) ==
  IF d.unread_marker = 0 THEN fill_bit_buffer_loop(d, nbits)
  ELSE Done(no_more_bytes(d, nbits))

\* The outcome r of jpeg_fill_bit_buffer taken into the decoding step st.
filled(st, r) == [st EXCEPT !.d = r.d, !.ok = r.ok]

CHECK_BIT_BUFFER(st, nbits) ==
  IF st.ok /\ Len(st.d.get_buffer) < nbits
  THEN filled(st, jpeg_fill_bit_buffer(st.d, nbits)) ELSE st

GET_BITS(st, nbits) == BitsVal(st.d.get_buffer, nbits)

DROP_BITS(st, nbits) == [st EXCEPT !.d.get_buffer = SubSeq(@, nbits + 1, Len(@))]

\* The codes jpeg_huff_decode can collect from the bits at hand: codes[l]
\* is the value of the first l bits.
PrefixCodes(bits) == [l \in 1..Min(17, Len(bits)) |-> BitsVal(bits, l)]

\* The while loop of jpeg_huff_decode stops at the first length l >= from
\* whose code does not exceed maxcode[l]; 0 if the bits at hand end first.
huff_code_length(maxcode, codes, from) ==
  IF \E l \in from..Len(codes) : codes[l] <= maxcode[l]
  THEN CHOOSE l \in from..Len(codes) :
         codes[l] <= maxcode[l] /\ \A m \in from..(l - 1) : codes[m] > maxcode[m]
  ELSE 0

\* The symbol of the code of length l: with garbage input the sentinel
\* l = 17 is reached and a zero is faked.
huff_symbol(st, htbl, code, l) ==
  IF l > 16 THEN [st EXCEPT !.s = 0, !.d.num_warnings.JWRN_HUFF_BAD_CODE = @ + 1]
  ELSE [st EXCEPT !.s = htbl.pub.huffval[code + htbl.valoffset[l] + 1]]

\* The loop on a refilled bit buffer (st after CHECK_BIT_BUFFER for one
\* more bit): at least MIN_GET_BITS bits are there, so the code ends at l.
jpeg_huff_decode_end(st, htbl, taken, codes, l) ==
  huff_symbol(DROP_BITS(st, l - taken), htbl, codes[l], l)

jpeg_huff_decode_codes(st, htbl, taken, codes) ==
  jpeg_huff_decode_end(st, htbl, taken, codes,
                       huff_code_length(htbl.maxcode, codes, taken + 1))

jpeg_huff_decode_refilled(st, htbl, prefix) ==
  IF ~st.ok THEN st
  ELSE jpeg_huff_decode_codes(st, htbl, Len(prefix),
                              PrefixCodes(prefix \o st.d.get_buffer))

\* The code ends at l within the bits of the buffer, or (l = 0) the buffer
\* is used up and CHECK_BIT_BUFFER refills it for the next bit.
jpeg_huff_decode_found(st, htbl, codes, l) ==
  IF l # 0 THEN jpeg_huff_decode_end(st, htbl, 0, codes, l)
  ELSE jpeg_huff_decode_refilled(
         CHECK_BIT_BUFFER([st EXCEPT !.d.get_buffer = <<>>], 1),
         htbl, st.d.get_buffer)

jpeg_huff_decode_buffered(st, htbl, min_bits, codes) ==
  jpeg_huff_decode_found(st, htbl, codes,
                         huff_code_length(htbl.maxcode, codes, min_bits))

\* st is the step after CHECK_BIT_BUFFER for the first min_bits bits.
jpeg_huff_decode_first(st, htbl, min_bits) ==
  IF ~st.ok THEN st
  ELSE jpeg_huff_decode_buffered(st, htbl, min_bits, PrefixCodes(st.d.get_buffer))

jpeg_huff_decode(st, htbl, min_bits) ==
  jpeg_huff_decode_first(CHECK_BIT_BUFFER(st, min_bits), htbl, min_bits)

\* HUFF_DECODE with the lookahead entry nb of the next 8 bits.
HUFF_DECODE_look(st, htbl, nb) ==
  IF nb # 0
  THEN [DROP_BITS(st, nb)
          EXCEPT !.s = look_sym(htbl, GET_BITS(st, HUFF_LOOKAHEAD), nb)]
  ELSE jpeg_huff_decode(st, htbl, HUFF_LOOKAHEAD + 1)

\* HUFF_DECODE on a bit buffer that was filled if it was short.
HUFF_DECODE_filled(st, htbl) ==
  IF ~st.ok THEN st
  ELSE IF Len(st.d.get_buffer) < HUFF_LOOKAHEAD THEN jpeg_huff_decode(st, htbl, 1)
  ELSE HUFF_DECODE_look(st, htbl,
                        look_nbits(htbl, GET_BITS(st, HUFF_LOOKAHEAD)))

HUFF_DECODE(st, htbl) ==
  IF st.ok /\ Len(st.d.get_buffer) < HUFF_LOOKAHEAD
  THEN HUFF_DECODE_filled(filled(st, jpeg_fill_bit_buffer(st.d, 0)), htbl)
  ELSE HUFF_DECODE_filled(st, htbl)

HUFF_EXTEND(x, s) == IF x <= Pow2(s - 1) - 1 THEN x - (Pow2(s) - 1) ELSE x

\* A value stored into a JCOEF (16 bits).
JCOEF(x) == ((x + 32768) % 65536) - 32768

ZeroBlock == [i \in 1..DCTSIZE2 |-> 0]

\* Section F.2.2.1, on the step after the bits of the DC difference (its size
\* is st.s) were made available: the DC value of a block of the ci'th
\* component of the scan.
decode_dc(st, ci) ==
  IF ~st.ok THEN st
  ELSE LET diff == IF st.s = 0 THEN 0 ELSE HUFF_EXTEND(GET_BITS(st, st.s), st.s)
       IN [DROP_BITS(st, st.s)
             EXCEPT !.d.last_dc_val[ci] = @ + diff,
                    !.block[1] = JCOEF(st.d.last_dc_val[ci] + diff),
                    !.k = 1]

\* decode_ac_value storing at the zigzag position itself.
decode_ac_value_plain(st) ==
  IF ~st.ok THEN st
  ELSE [DROP_BITS(st, st.s % 16)
          EXCEPT !.block[st.k + 1] =
                    JCOEF(HUFF_EXTEND(GET_BITS(st, st.s % 16), st.s % 16)),
                 !.k = @ + 1]

\* The coefficient of size st.s % 16 at zigzag position st.k, its bits
\* being available.
decode_ac_value(st) ==
  IF ~st.ok THEN st
  ELSE [DROP_BITS(st, st.s % 16)
          EXCEPT !.block[jpeg_natural_order[st.k + 1] + 1] =
                    JCOEF(HUFF_EXTEND(GET_BITS(st, st.s % 16), st.s % 16)),
                 !.k = @ + 1]

\* Section F.2.2.2 on the symbol st.s: a coefficient after a run of zeroes,
\* the end of the block (k jumps to the end), or a run of 16 zeroes.
decode_ac_symbol(st) ==
  IF ~st.ok THEN st
  ELSE IF st.s % 16 # 0
  THEN decode_ac_value(CHECK_BIT_BUFFER([st EXCEPT !.k = @ + st.s \div 16],
                                        st.s % 16))
  ELSE IF st.s \div 16 # 15 THEN [st EXCEPT !.k = DCTSIZE2]
  ELSE [st EXCEPT !.k = @ + 16]

\* One pass of the loop while (k < coef_limit), all coefficients wanted.
decode_ac_step(st, htbl) ==
  IF ~st.ok \/ st.k >= DCTSIZE2 THEN st
  ELSE decode_ac_symbol(HUFF_DECODE(st, htbl))

\* n passes of that loop, the first half of them before the second.
RECURSIVE decode_ac(_, _, _)
decode_ac_rest(st, htbl, n) ==
  IF ~st.ok \/ st.k >= DCTSIZE2 THEN st ELSE decode_ac(st, htbl, n)

decode_ac(st, htbl, n) ==
  IF n = 1 THEN decode_ac_step(st, htbl)
  ELSE decode_ac_rest(decode_ac(st, htbl, n \div 2), htbl, n - n \div 2)

\* The DC symbol decoded, the bits of the difference are asked for.
decode_dc_symbol(st) == CHECK_BIT_BUFFER(st, st.s)

decode_block_done(st) ==
  IF ~st.ok THEN st ELSE [st EXCEPT !.mcu = Append(@, st.block)]

\* One block of the ci'th component of the scan.
decode_block(st, ci) ==
  decode_block_done(
    decode_ac(
      decode_dc(
        decode_dc_symbol(
          HUFF_DECODE([st EXCEPT !.block = ZeroBlock],
                      st.d.dc_derived_tbls[
                        st.d.comp_info[st.d.cur_comp_info[ci]].dc_tbl_no])),
        ci),
      st.d.ac_derived_tbls[st.d.comp_info[st.d.cur_comp_info[ci]].ac_tbl_no],
      DCTSIZE2 - 1))

\* The outer loop of decode_mcu over the blocks of the MCU.
RECURSIVE decode_mcu_blocks(_, _)
decode_mcu_blocks(st, blkn) ==
  IF ~st.ok \/ blkn > Len(st.d.MCU_membership) THEN st
  ELSE decode_mcu_blocks(decode_block(st, st.d.MCU_membership[blkn]), blkn + 1)

\* decode_mcu reading through the state instead of a working copy.
decode_mcu_save_unsaved(st, d0) ==
  [d |-> st.d, ok |-> st.ok, mcu |-> IF st.ok THEN st.mcu ELSE <<>>]

\* Completed MCU: the working state becomes the state; a suspended MCU
\* leaves the source position, bit buffer and DC predictions of d0.
decode_mcu_save(st, d0) ==
  IF st.ok THEN [d |-> st.d, ok |-> TRUE, mcu |-> st.mcu]
  ELSE [d |-> [d0 EXCEPT !.unread_marker = st.d.unread_marker,
                         !.insufficient_data = st.d.insufficient_data,
                         !.num_warnings = st.d.num_warnings],
        ok |-> FALSE, mcu |-> <<>>]

\* decode_mcu behind the restart processing: out of data the MCU is left
\* zero.  The restart counter counts the MCU.
decode_mcu_data(d) ==
  IF ~d.insufficient_data
  THEN decode_mcu_save(
         decode_mcu_blocks([d |-> d, ok |-> TRUE, s |-> 0, k |-> 0,
                            block |-> ZeroBlock, mcu |-> <<>>], 1),
         d)
  ELSE [d |-> d, ok |-> TRUE,
        mcu |-> [blkn \in 1..Len(d.MCU_membership) |-> ZeroBlock]]

decode_mcu_counted(r) ==
  IF r.ok /\ r.d.restart_interval # 0
  THEN [r EXCEPT !.d.restarts_to_go = @ - 1] ELSE r

\* finish_pass_huff of jdhuff.c: whole unused bytes of the bit buffer count
\* as discarded.
finish_pass_huff_d(d) ==
  [d EXCEPT !.discarded_bytes = @ + Len(d.get_buffer) \div 8, !.get_buffer = <<>>]

\* process_restart behind read_restart_marker.
process_restart_read(r) ==
  IF ~r.ok THEN r
  ELSE Done([r.d EXCEPT
               !.last_dc_val = [ci \in 1..r.d.comps_in_scan |-> 0],
               !.restarts_to_go = r.d.restart_interval,
               !.insufficient_data = IF r.d.unread_marker = 0 THEN FALSE ELSE @])

process_restart(d) == process_restart_read(read_restart_marker(finish_pass_huff_d(d)))

decode_mcu_restarted(r) ==
  IF ~r.ok THEN [d |-> r.d, ok |-> FALSE, mcu |-> <<>>]
  ELSE decode_mcu_counted(decode_mcu_data(r.d))

\* Returns the object, FALSE in ok for "must suspend", and the blocks of
\* the MCU.
decode_mcu(d) ==
  IF d.restart_interval # 0 /\ d.restarts_to_go = 0
  THEN decode_mcu_restarted(process_restart(d))
  ELSE decode_mcu_counted(decode_mcu_data(d))

\* The table a scan component names, the standard one where none was read;
\* only the standard tables of slot 0 are held here.
huff_tbl_for(ptrs, isDC, tblno) ==
  IF ptrs[tblno] # NoHuffTable THEN ptrs[tblno] ELSE jpeg_std_huff_table(isDC)

\* The derived-table loop of start_pass_huff_decoder over the scan
\* components; an assertion of jpeg_make_d_derived_tbl stops it.
RECURSIVE start_pass_huff_tables(_, _)
start_pass_huff_made(d, ci, dc, ac, dctbl, actbl) ==
  IF ~dctbl.ok \/ ~actbl.ok THEN [d EXCEPT !.asserted = TRUE]
  ELSE start_pass_huff_tables(
         [d EXCEPT !.dc_derived_tbls[dc] = dctbl, !.ac_derived_tbls[ac] = actbl,
                   !.unmodelled = @ \/ (d.dc_huff_tbl_ptrs[dc] = NoHuffTable /\ dc # 0)
                                   \/ (d.ac_huff_tbl_ptrs[ac] = NoHuffTable /\ ac # 0)],
         ci + 1)

start_pass_huff_tables(d, ci) ==
  IF ci > d.comps_in_scan THEN d
  ELSE start_pass_huff_made(
         d, ci,
         d.comp_info[d.cur_comp_info[ci]].dc_tbl_no,
         d.comp_info[d.cur_comp_info[ci]].ac_tbl_no,
         jpeg_make_d_derived_tbl(
           huff_tbl_for(d.dc_huff_tbl_ptrs, TRUE,
                        d.comp_info[d.cur_comp_info[ci]].dc_tbl_no), TRUE),
         jpeg_make_d_derived_tbl(
           huff_tbl_for(d.ac_huff_tbl_ptrs, FALSE,
                        d.comp_info[d.cur_comp_info[ci]].ac_tbl_no), FALSE))

start_pass_huff_decoder(d) ==
  start_pass_huff_tables(
    [d EXCEPT !.last_dc_val = [ci \in 1..d.comps_in_scan |-> 0],
              !.get_buffer = <<>>,
              !.insufficient_data = FALSE,
              !.restarts_to_go = d.restart_interval],
    1)

(***************************************************************************)
(* Decompression: input controller (jdinput.c), coefficient controller     *)
(* (jdcoefct.c), main controller (jdmainct.c), master control (jdmaster.c) *)
(* and the API (jdapimin.c).  A routine that returns a code gives          *)
(* [d |-> the object, val |-> the code].                                   *)
(***************************************************************************)
MAX_COMPONENTS == 10

\* The largest sampling factor of the components, at least 1.
max_samp_factor(factors) ==
  CHOOSE m \in {1} \cup {factors[i] : i \in 1..Len(factors)} :
    \A i \in 1..Len(factors) : factors[i] <= m

\* The second half of initial_setup: component dimensions in blocks, the
\* number of iMCU rows, has_multiple_scans.
initial_setup_comps(d) ==
  [d EXCEPT
     !.comp_info =
        [ci \in 1..Len(d.comp_info) |->
           [d.comp_info[ci] EXCEPT
              !.width_in_blocks =
                 jdiv_round_up(d.image_width * d.comp_info[ci].h_samp_factor,
                               d.max_h_samp_factor * DCTSIZE),
              !.height_in_blocks =
                 jdiv_round_up(d.image_height * d.comp_info[ci].v_samp_factor,
                               d.max_v_samp_factor * DCTSIZE),
              !.quant_table = <<>>]],
     !.total_iMCU_rows = jdiv_round_up(d.image_height, d.max_v_samp_factor * DCTSIZE),
     !.has_multiple_scans = d.comps_in_scan < d.num_components]

\* initial_setup of jdinput.c: the assertions on the frame header, then the
\* largest sampling factors.
initial_setup(d) ==
  IF \/ d.image_height > JPEG_MAX_DIMENSION
     \/ d.image_width > JPEG_MAX_DIMENSION
     \/ d.data_precision < 8 \/ d.data_precision > 12
     \/ d.num_components > MAX_COMPONENTS
     \/ \E ci \in 1..Len(d.comp_info) :
          \/ d.comp_info[ci].h_samp_factor \notin 1..MAX_SAMP_FACTOR
          \/ d.comp_info[ci].v_samp_factor \notin 1..MAX_SAMP_FACTOR
  THEN [d EXCEPT !.asserted = TRUE]
  ELSE initial_setup_comps(
         [d EXCEPT
            !.max_h_samp_factor =
               max_samp_factor([ci \in 1..Len(d.comp_info) |->
                                  d.comp_info[ci].h_samp_factor]),
            !.max_v_samp_factor =
               max_samp_factor([ci \in 1..Len(d.comp_info) |->
                                  d.comp_info[ci].v_samp_factor])])

\* tmp of per_scan_setup: the blocks of the last row or column.
last_blocks(in_blocks, per_MCU) ==
  IF in_blocks % per_MCU = 0 THEN per_MCU ELSE in_blocks % per_MCU

\* MCU_membership for the scan components from the ci'th on.
RECURSIVE MCU_members(_, _)
MCU_members(d, ci) ==
  IF ci > d.comps_in_scan THEN <<>>
  ELSE [blkn \in 1..(d.comp_info[d.cur_comp_info[ci]].h_samp_factor
                     * d.comp_info[d.cur_comp_info[ci]].v_samp_factor) |-> ci]
       \o MCU_members(d, ci + 1)

per_scan_setup(d) ==
  IF d.comps_in_scan = 1
  THEN [d EXCEPT
          !.MCUs_per_row = d.comp_info[d.cur_comp_info[1]].width_in_blocks,
          !.comp_info[d.cur_comp_info[1]].last_row_height =
             last_blocks(d.comp_info[d.cur_comp_info[1]].height_in_blocks,
                         d.comp_info[d.cur_comp_info[1]].v_samp_factor),
          !.MCU_membership = <<1>>]
  ELSE IF Len(MCU_members(d, 1)) > D_MAX_BLOCKS_IN_MCU
  THEN [d EXCEPT !.asserted = TRUE]
  ELSE [d EXCEPT
          !.MCUs_per_row = jdiv_round_up(d.image_width, d.max_h_samp_factor * DCTSIZE),
          !.comp_info =
             [ci \in 1..Len(d.comp_info) |->
                IF \E i \in 1..d.comps_in_scan : d.cur_comp_info[i] = ci
                THEN [d.comp_info[ci] EXCEPT
                        !.last_row_height =
                           last_blocks(d.comp_info[ci].height_in_blocks,
                                       d.comp_info[ci].v_samp_factor)]
                ELSE d.comp_info[ci]],
          !.MCU_membership = MCU_members(d, 1)]

\* latch_quant_tables taking, for every component, the table of the highest
\* slot that is defined.
latch_quant_tables_last(d) ==
  IF d.asserted THEN d
  ELSE IF \A n \in 0..(NUM_QUANT_TBLS - 1) : d.quant_tbl_ptrs[n] = <<>>
  THEN [d EXCEPT !.asserted = TRUE]
  ELSE [d EXCEPT
          !.comp_info =
             [ci \in 1..Len(d.comp_info) |->
                [d.comp_info[ci] EXCEPT
                   !.quant_table =
                      d.quant_tbl_ptrs[CHOOSE n \in 0..(NUM_QUANT_TBLS - 1) :
                                         /\ d.quant_tbl_ptrs[n] # <<>>
                                         /\ \A m \in (n + 1)..(NUM_QUANT_TBLS - 1) :
                                              d.quant_tbl_ptrs[m] = <<>>]]]]

\* latch_quant_tables: each scan component keeps a copy of its table, which
\* is asserted to be there.
latch_quant_tables(d) ==
  IF d.asserted THEN d
  ELSE IF \E i \in 1..d.comps_in_scan :
            /\ d.comp_info[d.cur_comp_info[i]].quant_table = <<>>
            /\ d.quant_tbl_ptrs[d.comp_info[d.cur_comp_info[i]].quant_tbl_no] = <<>>
  THEN [d EXCEPT !.asserted = TRUE]
  ELSE [d EXCEPT
          !.comp_info =
             [ci \in 1..Len(d.comp_info) |->
                IF d.comp_info[ci].quant_table = <<>>
                   /\ \E i \in 1..d.comps_in_scan : d.cur_comp_info[i] = ci
                THEN [d.comp_info[ci] EXCEPT
                        !.quant_table = d.quant_tbl_ptrs[d.comp_info[ci].quant_tbl_no]]
                ELSE d.comp_info[ci]]]

\* start_iMCU_row of jdcoefct.c.
start_iMCU_row(d) ==
  [d EXCEPT
     !.MCU_rows_per_iMCU_row =
        IF d.comps_in_scan > 1 THEN 1
        ELSE IF d.input_iMCU_row < d.total_iMCU_rows - 1
        THEN d.comp_info[d.cur_comp_info[1]].v_samp_factor
        ELSE d.comp_info[d.cur_comp_info[1]].last_row_height,
     !.MCU_ctr = 0, !.MCU_vert_offset = 0]

\* start_input_pass of jdcoefct.c.
start_input_pass_coef(d) ==
  IF d.asserted THEN d ELSE start_iMCU_row([d EXCEPT !.input_iMCU_row = 0])

\* start_input_pass of jdinput.c; single-pass operation has
\* dummy_consume_data for consume_data.
start_input_pass(d) ==
  [start_input_pass_coef(
     IF latch_quant_tables(per_scan_setup(d)).asserted
     THEN latch_quant_tables(per_scan_setup(d))
     ELSE start_pass_huff_decoder(latch_quant_tables(per_scan_setup(d))))
   EXCEPT !.consume_input = "dummy_consume_data"]

finish_input_pass(d) ==
  [finish_pass_huff_d(d) EXCEPT !.consume_input = "consume_markers"]

\* One pass of the loop of consume_markers on what read_markers returned.
\* done is set when the pass returns, with val; a pseudo SOS marker (no
\* components in the scan) leaves the switch for another pass.
consume_markers_read(r) ==
  IF r.d.asserted \/ r.d.hung THEN [d |-> r.d, val |-> r.val, done |-> TRUE]
  ELSE IF r.val = JPEG_REACHED_SOS
  THEN IF r.d.inheaders # 0
       THEN IF (IF r.d.inheaders = 1 THEN initial_setup(r.d) ELSE r.d).comps_in_scan = 0
            THEN [d |-> [(IF r.d.inheaders = 1 THEN initial_setup(r.d) ELSE r.d)
                           EXCEPT !.inheaders = 2],
                  val |-> r.val, done |-> FALSE]
            ELSE [d |-> [(IF r.d.inheaders = 1 THEN initial_setup(r.d) ELSE r.d)
                           EXCEPT !.inheaders = 0],
                  val |-> r.val, done |-> TRUE]
       ELSE IF ~r.d.has_multiple_scans
       THEN [d |-> [r.d EXCEPT !.asserted = TRUE], val |-> r.val, done |-> TRUE]
       ELSE IF r.d.comps_in_scan = 0
       THEN [d |-> r.d, val |-> r.val, done |-> FALSE]
       ELSE [d |-> start_input_pass(r.d), val |-> r.val, done |-> TRUE]
  ELSE IF r.val = JPEG_REACHED_EOI
  THEN IF r.d.inheaders # 0 /\ r.d.saw_SOF
       THEN [d |-> [r.d EXCEPT !.eoi_reached = TRUE, !.msg_code = "JERR_SOF_NO_SOS"],
             val |-> JPEG_SUSPENDED, done |-> TRUE]
       ELSE [d |-> [r.d EXCEPT !.eoi_reached = TRUE], val |-> r.val, done |-> TRUE]
  ELSE [d |-> r.d, val |-> r.val, done |-> TRUE]

\* One pass of the loop of consume_markers.
consume_markers_pass(st) ==
  consume_markers_read(read_markers(st.d, 0))

RECURSIVE consume_markers_passes(_, _)

consume_markers_rest(st, n) ==
  IF st.done THEN st ELSE consume_markers_passes(st, n)

\* Up to n passes of the loop, the first half of them before the second.
consume_markers_passes(st, n) ==
  IF n <= 1 THEN consume_markers_pass(st)
  ELSE consume_markers_rest(consume_markers_passes(st, n \div 2), n - n \div 2)

\* What consume_markers returns: the value of the pass that returned, or,
\* the loop limit reached, the assertion behind the loop.
consume_markers_return(st) ==
  IF st.done THEN [d |-> st.d, val |-> st.val]
  ELSE [d |-> [st.d EXCEPT !.asserted = TRUE], val |-> JPEG_SUSPENDED]

consume_markers(d) ==
  IF d.eoi_reached THEN [d |-> d, val |-> JPEG_REACHED_EOI]
  ELSE consume_markers_return(
         consume_markers_passes([d |-> d, val |-> JPEG_SUSPENDED, done |-> FALSE],
                                1000))

\* The consume_input method: consume_markers, or dummy_consume_data of
\* jdcoefct.c, which asserts.
consume_input(d) ==
  IF d.consume_input = "consume_markers" THEN consume_markers(d)
  ELSE [d |-> [d EXCEPT !.asserted = TRUE], val |-> JPEG_SUSPENDED]

\* The iMCU row completed by decompress_onepass: the counters advance, the
\* last row of the scan finishes the input pass.
decompress_onepass_completed(d) ==
  IF d.input_iMCU_row + 1 < d.total_iMCU_rows
  THEN [d |-> start_iMCU_row([d EXCEPT !.input_iMCU_row = @ + 1]),
        val |-> JPEG_ROW_COMPLETED]
  ELSE [d |-> finish_input_pass([d EXCEPT !.input_iMCU_row = @ + 1]),
        val |-> JPEG_SCAN_COMPLETED]

\* The loops of decompress_onepass at MCU row st.yoffset and MCU column
\* st.col of the iMCU row; r is what decode_mcu returned for that MCU.
\* coef holds the MCUs of the iMCU row decoded so far.
decompress_onepass_mcu(r, st) ==
  IF ~r.ok
  THEN [st EXCEPT !.d = [r.d EXCEPT !.MCU_vert_offset = st.yoffset,
                                    !.MCU_ctr = st.col],
                  !.val = JPEG_SUSPENDED, !.done = TRUE]
  ELSE [st EXCEPT !.d = [r.d EXCEPT !.coef = IF st.yoffset = 0 /\ st.col = 0
                                             THEN <<r.mcu>> ELSE Append(@, r.mcu)],
                  !.col = @ + 1]

\* One pass of the loops: the end of the iMCU row, the end of an MCU row,
\* or one MCU.
decompress_onepass_pass(st) ==
  IF st.yoffset >= st.d.MCU_rows_per_iMCU_row
  THEN [st EXCEPT !.d = decompress_onepass_completed(st.d).d,
                  !.val = decompress_onepass_completed(st.d).val,
                  !.done = TRUE]
  ELSE IF st.col > st.d.MCUs_per_row - 1
  THEN [st EXCEPT !.d.MCU_ctr = 0, !.yoffset = @ + 1, !.col = 0]
  ELSE decompress_onepass_mcu(decode_mcu(st.d), st)

RECURSIVE decompress_onepass_loop(_, _)

decompress_onepass_rest(st, n) ==
  IF st.done THEN st ELSE decompress_onepass_loop(st, n)

\* n passes of the loops, or fewer when the routine returns earlier.
decompress_onepass_loop(st, n) ==
  IF n <= 1 THEN decompress_onepass_pass(st)
  ELSE decompress_onepass_rest(decompress_onepass_loop(st, n \div 2), n - n \div 2)

\* What decompress_onepass returns when its loops are left.
decompress_onepass_return(st) == [d |-> st.d, val |-> st.val]

decompress_onepass(d) ==
  decompress_onepass_return(
    decompress_onepass_loop(
      [d |-> d, val |-> JPEG_SUSPENDED, done |-> FALSE,
       yoffset |-> d.MCU_vert_offset, col |-> d.MCU_ctr],
      d.MCU_rows_per_iMCU_row * (d.MCUs_per_row + 1) + 1))

\* The row groups of an iMCU row in the main buffer.
rowgroups_avail == DCTSIZE

\* post_process_data of the upsampler: rows leave the buffered iMCU row, a
\* row group being max_v_samp_factor rows, until the caller's rows or the
\* buffer or the image are used up.  p is the object with the caller's
\* out_row_ctr.
post_process_data(p, out_rows_avail) ==
  LET pos == p.d.rowgroup_ctr * p.d.max_v_samp_factor + p.d.next_row_out
      num_rows == Min(Min(out_rows_avail - p.out_row_ctr,
                          rowgroups_avail * p.d.max_v_samp_factor - pos),
                      p.d.output_height - p.d.output_scanline - p.out_row_ctr)
  IN [p EXCEPT !.d.rowgroup_ctr = (pos + num_rows) \div p.d.max_v_samp_factor,
               !.d.next_row_out = (pos + num_rows) % p.d.max_v_samp_factor,
               !.out_row_ctr = @ + num_rows]

\* process_data_simple_main behind decompress_data, whose outcome is r.
process_data_decompressed(r, p, out_rows_avail) ==
  IF r.val = JPEG_SUSPENDED THEN [p EXCEPT !.d = r.d, !.suspended = TRUE]
  ELSE post_process_data([p EXCEPT !.d = [r.d EXCEPT !.rowgroup_ctr = 0,
                                                     !.next_row_out = 0]],
                         out_rows_avail)

process_data_simple_main(p, out_rows_avail) ==
  IF p.d.rowgroup_ctr >= rowgroups_avail
  THEN process_data_decompressed(decompress_onepass(p.d), p, out_rows_avail)
  ELSE post_process_data(p, out_rows_avail)

check_no_fractional_sampling(d) ==
  \A ci \in 1..Len(d.comp_info) :
    /\ d.max_h_samp_factor % d.comp_info[ci].h_samp_factor = 0
    /\ d.max_v_samp_factor % d.comp_info[ci].v_samp_factor = 0

\* check_no_null_quant_tables without its test.
check_no_null_quant_tables_unchecked(d) == TRUE

\* check_no_null_quant_tables: every scan component has its table latched
\* or its slot filled.
check_no_null_quant_tables(d) ==
  \A i \in 1..d.comps_in_scan :
    \/ d.comp_info[d.cur_comp_info[i]].quant_table # <<>>
    \/ /\ d.comp_info[d.cur_comp_info[i]].quant_tbl_no < NUM_QUANT_TBLS
       /\ d.quant_tbl_ptrs[d.comp_info[d.cur_comp_info[i]].quant_tbl_no] # <<>>

\* jpeg_consume_input behind the consume_input method.
jpeg_consume_input_read(r) ==
  IF ~r.d.asserted /\ ~r.d.hung /\ r.val = JPEG_REACHED_SOS
  THEN [r EXCEPT !.d.global_state = DSTATE_READY] ELSE r

\* jpeg_consume_input; from DSTATE_START the input controller and the
\* marker reader are reset first.
jpeg_consume_input(d) ==
  IF d.global_state = DSTATE_START
  THEN jpeg_consume_input_read(
         consume_input([d EXCEPT !.global_state = DSTATE_INHEADER,
                                 !.consume_input = "consume_markers",
                                 !.has_multiple_scans = FALSE,
                                 !.eoi_reached = FALSE, !.inheaders = 1,
                                 !.comp_info = <<>>, !.input_scan_number = 0,
                                 !.unread_marker = 0, !.saw_SOI = FALSE,
                                 !.saw_SOF = FALSE, !.discarded_bytes = 0]))
  ELSE IF d.global_state = DSTATE_INHEADER
  THEN jpeg_consume_input_read(consume_input(d))
  ELSE [d |-> [d EXCEPT !.asserted = TRUE], val |-> JPEG_SUSPENDED]

\* jpeg_read_header on what jpeg_consume_input returned.
jpeg_read_header_code(r, require_image) ==
  IF r.d.asserted \/ r.d.hung THEN r
  ELSE IF r.val = JPEG_REACHED_SOS
  THEN IF ~check_no_fractional_sampling(r.d)
       THEN [d |-> [r.d EXCEPT !.msg_code = "JERR_FRACT_SAMPLE_NOTIMPL"],
             val |-> JPEG_SUSPENDED]
       ELSE IF ~check_no_null_quant_tables(r.d)
       THEN [d |-> [r.d EXCEPT !.msg_code = "JERR_NO_QUANT_TABLE"],
             val |-> JPEG_SUSPENDED]
       ELSE [r EXCEPT !.val = JPEG_HEADER_OK]
  ELSE IF r.val = JPEG_REACHED_EOI
  THEN IF require_image
       THEN [d |-> [r.d EXCEPT !.msg_code = "JERR_NO_IMAGE"], val |-> JPEG_SUSPENDED]
       ELSE [d |-> [r.d EXCEPT !.global_state = DSTATE_START],
             val |-> JPEG_HEADER_TABLES_ONLY]
  ELSE r

\* jpeg_read_header without the check of the state.
jpeg_read_header_unchecked(d, require_image) ==
  jpeg_read_header_code(
    IF d.global_state \in {DSTATE_START, DSTATE_INHEADER}
    THEN jpeg_consume_input(d) ELSE [d |-> d, val |-> JPEG_SUSPENDED],
    require_image)

jpeg_read_header(d, require_image) ==
  IF d.global_state \notin {DSTATE_START, DSTATE_INHEADER}
  THEN [d |-> [d EXCEPT !.asserted = TRUE], val |-> JPEG_SUSPENDED]
  ELSE jpeg_read_header_code(jpeg_consume_input(d), require_image)

\* The loop of jpeg_finish_decompress to the end of the datastream, then
\* term_source and jpeg_abort.
RECURSIVE jpeg_finish_decompress_loop(_)
\* r is what the consume_input method returned.
jpeg_finish_decompress_consumed(r) ==
  IF r.d.asserted \/ r.d.hung \/ r.val = JPEG_SUSPENDED THEN Failed(r.d)
  ELSE jpeg_finish_decompress_loop(r.d)

jpeg_finish_decompress_loop(d) ==
  IF d.eoi_reached THEN Done([d EXCEPT !.global_state = DSTATE_START])
  ELSE jpeg_finish_decompress_consumed(consume_input(d))

jpeg_finish_decompress(d) ==
  IF d.global_state = DSTATE_SCANNING
  THEN IF d.output_scanline < d.output_height
       THEN Failed([d EXCEPT !.asserted = TRUE])
       ELSE jpeg_finish_decompress_loop([d EXCEPT !.global_state = DSTATE_STOPPING])
  ELSE IF d.global_state # DSTATE_STOPPING THEN Failed([d EXCEPT !.asserted = TRUE])
  ELSE jpeg_finish_decompress_loop(d)

\* jpeg_calc_output_dimensions: no scaling.
jpeg_calc_output_dimensions(d) ==
  IF d.global_state # DSTATE_READY THEN [d EXCEPT !.asserted = TRUE]
  ELSE [d EXCEPT !.output_width = d.image_width, !.output_height = d.image_height]

\* jinit_d_coef_controller of jdcoefct.c: there is no buffer for a whole
\* image, only the one for an MCU.
jinit_d_coef_controller(d, need_full_buffer) ==
  IF need_full_buffer THEN [d EXCEPT !.asserted = TRUE] ELSE d

\* The end of master_selection: the input side is started on the first
\* scan.
master_selection_input(d) ==
  IF d.asserted THEN d ELSE start_input_pass(d)

\* master_selection behind jpeg_calc_output_dimensions: buffered_image is
\* never set, so a buffer for the whole image is asked for a file of
\* multiple scans only.
master_selection_modules(d) ==
  IF d.asserted THEN d
  ELSE IF d.output_height <= 0 \/ d.output_width <= 0 \/ d.num_components <= 0
  THEN [d EXCEPT !.asserted = TRUE]
  ELSE master_selection_input(jinit_d_coef_controller(d, d.has_multiple_scans))

master_selection(d) ==
  IF d.data_precision # BITS_IN_JSAMPLE THEN [d EXCEPT !.asserted = TRUE]
  ELSE master_selection_modules(jpeg_calc_output_dimensions(d))

\* prepare_for_output_pass: the main buffer is marked empty.
prepare_for_output_pass(d) ==
  IF d.asserted THEN d
  ELSE [d EXCEPT !.rowgroup_ctr = rowgroups_avail, !.next_row_out = 0]

\* jpeg_start_decompress: the modules are selected and started, the output
\* pass is prepared.  A file of more than one scan is not held here.
jpeg_start_decompress_pass(d) ==
  IF d.asserted THEN Failed(d)
  ELSE Done([d EXCEPT !.output_scanline = 0, !.global_state = DSTATE_SCANNING,
                      !.unmodelled = @ \/ d.has_multiple_scans])

jpeg_start_decompress(d) ==
  IF d.global_state # DSTATE_READY THEN Failed([d EXCEPT !.asserted = TRUE])
  ELSE jpeg_start_decompress_pass(prepare_for_output_pass(master_selection(d)))

\* The loop of jpeg_read_scanlines: the main controller is asked for rows
\* until max_lines or the rest of the image are delivered or it suspends.
RECURSIVE jpeg_read_scanlines_loop(_, _)
jpeg_read_scanlines_loop(p, max_lines) ==
  IF p.suspended \/ p.out_row_ctr >= max_lines
     \/ p.d.output_scanline + p.out_row_ctr >= p.d.output_height
  THEN [d |-> [p.d EXCEPT !.output_scanline = @ + p.out_row_ctr],
        row_ctr |-> p.out_row_ctr]
  ELSE jpeg_read_scanlines_loop(process_data_simple_main(p, max_lines), max_lines)

\* Returns the object and the number of rows delivered.
jpeg_read_scanlines(d, max_lines) ==
  IF d.global_state # DSTATE_SCANNING
  THEN [d |-> [d EXCEPT !.asserted = TRUE], row_ctr |-> 0]
  ELSE IF d.output_scanline >= d.output_height THEN [d |-> d, row_ctr |-> 0]
  ELSE jpeg_read_scanlines_loop([d |-> d, out_row_ctr |-> 0, suspended |-> FALSE],
                                max_lines)

(***************************************************************************)
(* The application decoding a datastream                                   *)
(***************************************************************************)
\* The scanline loop of jsc_compress_rst for the next n rows, the first
\* half of them before the second; r.ok tells that every row was written.
RECURSIVE jsc_compress_rows(_, _, _)
jsc_compress_rows_rest(r, data, n) ==
  IF ~r.ok THEN r ELSE jsc_compress_rows(r.c, data, n)

\* r is what jpeg_write_scanlines returned for one row.
jsc_compress_row_written(r) ==
  [c |-> r.c, ok |-> ~r.c.asserted /\ r.row_ctr = 1]

jsc_compress_rows(c, data, n) ==
  IF n = 1 THEN jsc_compress_row_written(jpeg_write_scanlines(c, data, 1))
  ELSE jsc_compress_rows_rest(jsc_compress_rows(c, data, n \div 2), data, n - n \div 2)

\* After the loop: jpeg_finish_compress, or the return of -1.
jsc_compress_finish(r) == IF r.ok THEN jpeg_finish_compress(r.c) ELSE r.c

\* The object jsc_compress_rst leaves; its buf is the compressed stream.
jsc_compress_rst(image, data, outsize, quality, n_restart_sections) ==
  jsc_compress_finish(
    jsc_compress_rows(
      jpeg_write_marker(
        jpeg_start_compress(
          set_restart_sections(jpeg_create_compress(image, outsize, quality),
                               n_restart_sections),
          TRUE),
        M_COM, utext),
      data, image.height))

\* Bounds of the decompression scenarios.
MaxInject == 2
MaxSpan == 3
SpanWindow == 2
MaxReads == 40
DenseCoefs == 30
FloodLen == 1001

\* The garbage bytes of the corruption tests: 0x00, 0xFF, RST0, EOI, APP0,
\* COM, 0xA5, 0x5A, 0x42.
garbage_bytes == {0, 255, M_RST0, M_EOI, M_APP0, M_COM, 165, 90, 66}

\* A block whose first n AC coefficients in zigzag order are v.
DenseBlock(dc, v, n) ==
  [k \in 1..DCTSIZE2 |-> IF k = 1 THEN dc
                         ELSE IF zigzag_of_natural[k] <= n + 1 THEN v ELSE 0]

\* Two images with restart sections of one MCU row: a short one whose
\* sections end in a stuffed 0xFF, and a long one whose entropy-coded data
\* is longer than its headers.
DecImages ==
  <<JscImage(DCTSIZE, 2 * DCTSIZE, 1, "JCS_GRAYSCALE"),
    JscImage(DCTSIZE, 4 * DCTSIZE, 1, "JCS_GRAYSCALE")>>

DecData ==
  <<[row \in 1..2 |-> <<<<CoefBlock(5 * row, -3, 255)>>>>],
    [row \in 1..4 |-> <<<<DenseBlock(64 * row, 1023 - row, DenseCoefs)>>>>]>>

\* The valid streams: jsc_compress_rst into a buffer that is large enough.
DecStreams ==
  [i \in 1..2 |->
     jsc_compress_rst(DecImages[i], DecData[i], 4096, Quality, 2).buf]

\* The offset of the last byte of the SOS header of a valid stream: the
\* entropy-coded data starts behind it.
HeaderLen(stream) ==
  CHOOSE j \in 1..Len(stream) :
    /\ stream[j] = M_SOS /\ stream[j - 1] = 255
    /\ \A k \in 2..(j - 1) : ~(stream[k] = M_SOS /\ stream[k - 1] = 255)

DecHeaderLen ==
  [i \in 1..2 |-> HeaderLen(DecStreams[i]) + INPUT_2BYTES([buf |-> DecStreams[i], next_input_byte |-> HeaderLen(DecStreams[i])], 1)]

\* The stream with the byte at offset at replaced by g.
CorruptByte(stream, at, g) == [stream EXCEPT ![at] = g]

\* The stream with the bytes from offset at on overwritten by the span.
OverwriteSpan(stream, at, span) ==
  [j \in 1..Len(stream) |->
     IF j >= at /\ j < at + Len(span) THEN span[j - at + 1] ELSE stream[j]]

\* The stream with the bytes injected behind offset at.
InjectBytes(stream, at, bytes) ==
  SubSeq(stream, 1, at) \o bytes \o SubSeq(stream, at + 1, Len(stream))

\* Spans and injections: up to n garbage bytes.
GarbageSeqs(n) == UNION {[1..len -> garbage_bytes] : len \in 1..n}

\* Spans of up to n equal garbage bytes.
GarbageRuns(n) == {[j \in 1..len |-> g] : len \in 1..n, g \in garbage_bytes}

\* The SOS header of a stream, as one more span to overwrite with.
SosHeader(stream) == SubSeq(stream, HeaderLen(stream) - 1, DecHeaderLen[1])

\* The middle of the entropy-coded region and of the whole stream.
EntropyMiddle(i) == (DecHeaderLen[i] + Len(DecStreams[i])) \div 2

StreamMiddle(i) == Len(DecStreams[i]) \div 2

\* The offset of the marker code of the SOF0 segment of a valid stream.
SofOffset(stream) ==
  CHOOSE j \in 2..Len(stream) :
    /\ stream[j] = M_SOF0 /\ stream[j - 1] = 255
    /\ \A k \in 2..(j - 1) : ~(stream[k] = M_SOF0 /\ stream[k - 1] = 255)

\* The stream with the two-byte field at offset at set to v.
SetField(stream, at, v) ==
  [stream EXCEPT ![at] = v \div 256, ![at + 1] = v % 256]

\* The dimensions tried in a frame header: the largest good one and the next.
DimValues == {JPEG_MAX_DIMENSION, JPEG_MAX_DIMENSION + 1}

\* n markers that a resynchronisation scans past: 0xFF 0x01 each.
FloodBytes(n) == [j \in 1..(2 * n) |-> IF j % 2 = 1 THEN 255 ELSE M_TEM]

\* The working memory the application gives the decoder for an image.
DecMemSize(i) ==
  JSC_WORKING_MEM_SIZE(DecImages[i].n_components, DecImages[i].width)

\* The inputs of the decoding scenarios: the valid streams and their
\* corruptions, each with the stream it was made of.
DecInputs ==
  {[kind |-> "valid", i |-> i, at |-> 0, len |-> 0, buf |-> DecStreams[i]] :
     i \in 1..2}
  \cup {[kind |-> "byte", i |-> 1, at |-> at, len |-> 1,
         buf |-> CorruptByte(DecStreams[1], at, g)] :
          at \in 1..Len(DecStreams[1]), g \in garbage_bytes}
  \cup {[kind |-> "prefix", i |-> 1, at |-> at, len |-> 0,
         buf |-> SubSeq(DecStreams[1], 1, at)] :
          at \in 1..(Len(DecStreams[1]) - 1)}
  \cup {[kind |-> "span", i |-> 2, at |-> at, len |-> Len(span),
         buf |-> OverwriteSpan(DecStreams[2], at, span)] :
          at \in (EntropyMiddle(2) - SpanWindow)..(EntropyMiddle(2) + SpanWindow),
          span \in GarbageRuns(MaxSpan) \cup {SosHeader(DecStreams[2])}}
  \cup {[kind |-> "inject", i |-> 2, at |-> StreamMiddle(2), len |-> Len(bytes),
         buf |-> InjectBytes(DecStreams[2], StreamMiddle(2), bytes)] :
          bytes \in GarbageSeqs(MaxInject)}
  \cup {[kind |-> "flood", i |-> 2, at |-> StreamMiddle(2), len |-> 2 * FloodLen,
         buf |-> InjectBytes(DecStreams[2], StreamMiddle(2), FloodBytes(FloodLen))]}
  \cup {[kind |-> "dims", i |-> 1, at |-> SofOffset(DecStreams[1]) + f, len |-> v,
         buf |-> SetField(DecStreams[1], SofOffset(DecStreams[1]) + f, v)] :
          f \in {4, 6}, v \in DimValues}

\* The application of the decoding tests: jpeg_read_header, then
\* jpeg_start_decompress, then jpeg_read_scanlines row by row, then
\* jpeg_finish_decompress.  After a call that delivers no row the loop is
\* left (stop) or goes on (as the loops that ignore the return do).
InitD ==
  /\ cinfo = NoCompress
  /\ \E input \in DecInputs, stop \in BOOLEAN :
       /\ input.kind # "valid" => input.buf # DecStreams[input.i]
       /\ stop = (input.kind \in {"byte", "prefix", "dims"})
       /\ dinfo = jpeg_CreateDecompress(
                    input.buf,
                    IF input.kind = "dims"
                    THEN JSC_WORKING_MEM_SIZE(DecImages[input.i].n_components,
                                              JPEG_MAX_DIMENSION + 1)
                    ELSE DecMemSize(input.i))
       /\ app = [entry |-> "decode", kind |-> input.kind, i |-> input.i,
                 at |-> input.at, len |-> input.len, stop |-> stop,
                 pc |-> "header", hdr |-> -1, reads |-> 0, short |-> 0,
                 image |-> <<>>, finished |-> FALSE]

\* Where the application goes after a call that left the object d.
DecAfter(d, pc) ==
  IF d.asserted THEN "aborted" ELSE IF d.hung THEN "hung" ELSE pc

DecHeaderRead(r) ==
  /\ dinfo' = r.d
  /\ app' = [app EXCEPT !.hdr = r.val,
                        !.pc = DecAfter(r.d, IF r.val = JPEG_HEADER_OK
                                             THEN "start" ELSE "failed")]

DecReadHeader ==
  /\ app.entry = "decode" /\ app.pc = "header"
  /\ DecHeaderRead(jpeg_read_header(dinfo, TRUE))
  /\ UNCHANGED cinfo

DecStarted(r) ==
  /\ dinfo' = r.d
  /\ app' = [app EXCEPT !.pc = DecAfter(r.d, IF r.ok THEN "rows" ELSE "failed")]

DecStartDecompress ==
  /\ app.entry = "decode" /\ app.pc = "start"
  /\ DecStarted(jpeg_start_decompress(dinfo))
  /\ UNCHANGED cinfo

\* The rows of an iMCU row of the image.
iMCU_rows(d) == d.max_v_samp_factor * DCTSIZE

\* The image with the row just delivered: the first row of an iMCU row
\* brings the coefficient blocks of that iMCU row.  Rows beyond the height
\* of the original image are not kept.
DecImageWith(image, r) ==
  IF r.row_ctr = 1 /\ (r.d.output_scanline - 1) % iMCU_rows(r.d) = 0
     /\ Len(image) < Len(DecData[app.i])
  THEN Append(image, r.d.coef) ELSE image

DecScanlinesRead(r) ==
  /\ dinfo' = r.d
  /\ app' = [app EXCEPT
               !.reads = @ + 1,
               !.short = IF r.row_ctr < 1 THEN @ + 1 ELSE @,
               !.image = DecImageWith(@, r),
               !.pc = DecAfter(r.d, IF r.row_ctr < 1 /\ app.stop
                                    THEN "failed" ELSE "rows")]

DecReadScanlines ==
  /\ app.entry = "decode" /\ app.pc = "rows"
  /\ dinfo.output_scanline < dinfo.output_height
  /\ app.reads < MaxReads
  /\ DecScanlinesRead(jpeg_read_scanlines(dinfo, 1))
  /\ UNCHANGED cinfo

DecFinished(r) ==
  /\ dinfo' = r.d
  /\ app' = [app EXCEPT !.finished = r.ok,
                        !.pc = DecAfter(r.d, IF r.ok THEN "done" ELSE "failed")]

DecFinishDecompress ==
  /\ app.entry = "decode" /\ app.pc = "rows"
  /\ dinfo.output_scanline >= dinfo.output_height
  /\ DecFinished(jpeg_finish_decompress(dinfo))
  /\ UNCHANGED cinfo

NextD ==
  \/ DecReadHeader
  \/ DecStartDecompress
  \/ DecReadScanlines
  \/ DecFinishDecompress

SpecD == InitD /\ [][NextD]_vars

\* No assertion has fired and no call is stuck in a loop.
DecNoCrash == app.pc \notin {"aborted", "hung"}

\* ---------------------------------------------------------------------
\* Properties of the decoding scenarios (SpecD).

\* The application has left the decoding loop.
DecEnded == app.pc \in {"done", "failed", "aborted", "hung"}

\* C1: after any single byte of a valid stream was replaced, a full decode
\* delivers a complete image or returns suspended: no assertion fires and
\* no call fails to return.
C1_SingleByteCorruption ==
  app.kind = "byte" => app.pc \notin {"aborted", "hung"}

\* C4: decoding a strict prefix of a valid stream signals failure: a prefix
\* that ends in the headers makes jpeg_read_header return JPEG_SUSPENDED; a
\* prefix that ends in the entropy-coded data gives JPEG_HEADER_OK and a
\* jpeg_read_scanlines call that returns fewer rows than asked for before
\* output_scanline reaches output_height.
C4_PrefixSignalsFailure ==
  (app.kind = "prefix" /\ app.pc # "header") =>
    IF app.at < DecHeaderLen[app.i]
    THEN app.hdr = JPEG_SUSPENDED /\ app.pc = "failed"
    ELSE /\ app.hdr = JPEG_HEADER_OK
         /\ app.pc \notin {"aborted", "hung"}
         /\ (app.pc \in {"rows", "done"}
             /\ dinfo.output_scanline >= dinfo.output_height) => app.short > 0

\* C5: with restart markers, a span of bytes overwritten in the middle of
\* the entropy-coded data still gives a complete image: every
\* jpeg_read_scanlines call delivers its row and decoding ends without a
\* crash.
C5_SpanCorruptionCompletes ==
  app.kind = "span" => app.pc \notin {"aborted", "hung"} /\ app.short = 0

\* The restart sections (here: iMCU rows) in which the decoded image is not
\* the one the stream was made of.
DifferingSections ==
  {s \in 1..Len(DecData[app.i]) :
     s > Len(app.image) \/ app.image[s] # DecData[app.i][s]}

\* A valid stream decodes to the coefficient blocks it was made of, so
\* DecData is the decoding of the uncorrupted stream.
ValidDecodesExactly ==
  (app.kind = "valid" /\ app.pc = "done") => DifferingSections = {}

\* C6: after bytes were injected at the midpoint of a stream with restart
\* markers, the decoded image differs from the decoding of the uncorrupted
\* stream in at most one restart section.
C6_OneSectionPerInjection ==
  (app.kind = "inject" /\ app.pc \in {"done", "failed"}) =>
    Cardinality(DifferingSections) <= 1

\* C16: within one call into the decoder no loop over markers or restart
\* candidates makes more than 1000 passes.  The loops of read_markers and
\* consume_markers stop at their limit; this is the loop of
\* jpeg_resync_to_restart.
C16_LoopCap == dinfo.resync_loops <= 1000

\* C17: a marker segment whose length exceeds the bytes left in the input
\* makes the decoder return suspended: the call returns and the read
\* position stays within the input.
C17_LengthBeyondInput ==
  /\ ~dinfo.hung
  /\ dinfo.bytes_in_buffer >= 0
  /\ dinfo.next_input_byte + dinfo.bytes_in_buffer = Len(dinfo.buf)

\* The byte replaced in a single-byte corruption, as an offset from the
\* marker code of the SOF0 segment (Lf is at 1..2, P at 3, Y at 4..5, X at
\* 6..7, Nf at 8, then C, H/V and Tq of the component).
SofField == app.at - SofOffset(DecStreams[app.i])

\* The corrupted stream has one of these structural defects: no SOI at the
\* start, a precision other than 8, a zero dimension, a sampling factor
\* outside 1..4, a quantization table index of 4 or more.
StructuralDefect ==
  /\ app.kind = "byte"
  /\ \/ app.at \in 1..2
     \/ SofField = 3
     \/ SofField \in 4..7 /\ \E f \in {4, 6} :
          /\ dinfo.buf[SofOffset(DecStreams[app.i]) + f] = 0
          /\ dinfo.buf[SofOffset(DecStreams[app.i]) + f + 1] = 0
     \/ SofField = 10 /\ \/ dinfo.buf[app.at] \div 16 \notin 1..MAX_SAMP_FACTOR
                         \/ dinfo.buf[app.at] % 16 \notin 1..MAX_SAMP_FACTOR
     \/ SofField = 11 /\ dinfo.buf[app.at] >= NUM_QUANT_TBLS

\* C13: each structural rejection by the marker reader emits a typed
\* warning and makes jpeg_read_header return JPEG_SUSPENDED.
C13_RejectionIsTypedWarning ==
  (StructuralDefect /\ app.pc # "header") =>
    /\ app.hdr = JPEG_SUSPENDED
    /\ app.pc = "failed"
    /\ dinfo.msg_code # "none"

\* A component of the scan refers to a quantization table slot with no
\* table defined.
MissingQuantTable ==
  \E i \in 1..dinfo.comps_in_scan :
    /\ dinfo.comp_info[dinfo.cur_comp_info[i]].quant_table = <<>>
    /\ dinfo.quant_tbl_ptrs[dinfo.comp_info[dinfo.cur_comp_info[i]].quant_tbl_no] = <<>>

\* C14: when the scan header is reached with a component whose quant_tbl_no
\* refers to an empty slot, jpeg_read_header warns NO_QUANT_TABLE and
\* returns JPEG_SUSPENDED, and the decoder never starts scanning (where the
\* tables are latched) with a table missing.
C14_NoQuantTable ==
  /\ (dinfo.global_state = DSTATE_READY /\ MissingQuantTable) =>
       /\ app.hdr = JPEG_SUSPENDED
       /\ app.pc = "failed"
       /\ dinfo.msg_code = "JERR_NO_QUANT_TABLE"
  /\ dinfo.global_state \in {DSTATE_SCANNING, DSTATE_STOPPING} => ~MissingQuantTable
  /\ app.pc = "aborted" => ~MissingQuantTable

\* A stream whose DQT segment was lost has been rejected at its SOS.
C14_MissingTableRejected ==
  /\ dinfo.global_state = DSTATE_READY /\ MissingQuantTable
  /\ app.pc = "failed" /\ dinfo.msg_code = "JERR_NO_QUANT_TABLE"

\* The images whose dimensions are tried by the compressor: one block, the
\* largest good dimension, and the next.
DimImages ==
  {JscImage(w, h, 1, "JCS_GRAYSCALE") :
     w \in {DCTSIZE} \cup DimValues, h \in {DCTSIZE} \cup DimValues}

\* jsc_compress on the images of DimImages, and the decoding of the streams
\* whose frame header holds the dimensions of DimValues.
InitDim ==
  \/ /\ \E image \in DimImages :
          /\ cinfo = jpeg_create_compress(image, MaxCap, Quality)
          /\ app = [entry |-> "jsc_compress", pc |-> "start", returned |-> FALSE,
                    ret |-> 0, image |-> image, pattern |-> MaxPattern,
                    n_restart_sections |-> image.height \div DCTSIZE2,
                    hdr |-> {}, calls |-> 0, started |-> FALSE,
                    scanlines_called |-> FALSE,
                    last |-> "none", lines_asked |-> 0, rows_written |-> 0]
     /\ dinfo = NoDecompress
  \/ InitD /\ app.kind = "dims"

NextDim ==
  \/ JscStart
  \/ JscWriteRow
  \/ JscFinish
  \/ DecReadHeader
  \/ DecStartDecompress
  \/ DecReadScanlines
  \/ DecFinishDecompress

SpecDim == InitDim /\ [][NextDim]_vars

\* C15: dimensions of at most 65500 are accepted and a width or height of
\* 65501 or more is rejected, by jpeg_start_compress for an image to
\* compress and by the decoder for the dimensions of a frame header.  The
\* rejection is the assertion of initial_setup.
C15_DimensionCompliance ==
  /\ (app.entry = "jsc_compress" /\ app.pc # "start") =>
       IF app.image.width <= JPEG_MAX_DIMENSION /\ app.image.height <= JPEG_MAX_DIMENSION
       THEN app.pc # "aborted" /\ app.started /\ ~cinfo.asserted
       ELSE app.pc = "aborted" /\ cinfo.global_state = CSTATE_START
  /\ (app.entry = "decode" /\ app.pc # "header") =>
       IF dinfo.image_width <= JPEG_MAX_DIMENSION /\ dinfo.image_height <= JPEG_MAX_DIMENSION
       THEN /\ app.hdr = JPEG_HEADER_OK /\ app.pc # "aborted"
            /\ app.pc = "failed" => app.reads > 0
       ELSE app.pc = "aborted" /\ app.reads = 0

\* A frame header with a dimension of 65501 has been rejected, and so has an
\* image of that size by the compressor.
C15_OversizeRejected ==
  \/ /\ app.entry = "decode" /\ app.pc = "aborted"
     /\ dinfo.image_height = JPEG_MAX_DIMENSION + 1
  \/ /\ app.entry = "jsc_compress" /\ app.pc = "aborted"
     /\ app.image.width = JPEG_MAX_DIMENSION + 1

\* The step is a call of jpeg_write_scanlines that returns.
WriteScanlinesStep ==
  /\ app'.last = "jpeg_write_scanlines"
  /\ \/ app.entry = "api" /\ app'.calls = app.calls + 1
     \/ JscCall /\ app.pc = "rows" /\ app'.pc # "aborted"
  /\ ~cinfo'.asserted

\* The rows a call may take: the rows given, or the rest of the image.
RowsWanted == Min(app'.lines_asked, cinfo.image_height - cinfo.next_scanline)

jpeg_set_quality(c, quality) ==
  IF c.global_state # CSTATE_START THEN [c EXCEPT !.asserted = TRUE]
  ELSE [c EXCEPT !.quant_tbl_ptrs =
          <<jpeg_add_quant_table(std_luminance_quant_tbl,
                                 jpeg_quality_scaling(quality))>>]

\* jpeg_set_defaults: quality 75, no restart markers, the default colour
\* space of the input.
jpeg_set_defaults(c, image) ==
  IF c.global_state # CSTATE_START THEN [c EXCEPT !.asserted = TRUE]
  ELSE LET cs == jpeg_set_colorspace(image.color_space, image.n_components)
       IN [jpeg_set_quality(c, 75) EXCEPT
             !.restart_interval = 0, !.restart_in_rows = 0,
             !.write_JFIF_header = cs.write_JFIF_header,
             !.write_Adobe_marker = cs.write_Adobe_marker,
             !.comp_info = cs.comp_info]

\* The number of calls an application of the order scenarios makes.
MaxOrderCalls == 5

\* An application that holds a compression object and a decompression
\* object on a valid stream and calls their routines in any order.  cphase
\* and dphase say what the calls that returned so far have achieved.
InitOrder ==
  /\ \E image \in Images, i \in 1..2 :
       /\ cinfo = jpeg_create_compress(image, MaxCap, Quality)
       /\ dinfo = jpeg_CreateDecompress(DecStreams[i], DecMemSize(i))
       /\ app = [entry |-> "order", image |-> image, i |-> i, calls |-> 0,
                 last |-> "none", cphase |-> "created", dphase |-> "created",
                 rows_in |-> 0, rows_out |-> 0]

OrderCall ==
  /\ app.entry = "order" /\ app.calls < MaxOrderCalls
  /\ ~cinfo.asserted /\ ~dinfo.asserted

\* A call on the compression object has left c; phase is where the
\* compression is when the call returned.
OrdCompressCalled(c, call, phase, rows) ==
  /\ cinfo' = c
  /\ app' = [app EXCEPT !.calls = @ + 1, !.last = call,
                        !.cphase = IF c.asserted THEN @ ELSE phase,
                        !.rows_in = IF c.asserted THEN @ ELSE rows]
  /\ UNCHANGED dinfo

OrdSetDefaults ==
  /\ OrderCall
  /\ OrdCompressCalled(jpeg_set_defaults(cinfo, app.image), "jpeg_set_defaults",
                       app.cphase, app.rows_in)

OrdSetQuality ==
  /\ OrderCall
  /\ OrdCompressCalled(jpeg_set_quality(cinfo, Quality), "jpeg_set_quality",
                       app.cphase, app.rows_in)

OrdStartCompress ==
  /\ OrderCall
  /\ OrdCompressCalled(jpeg_start_compress(cinfo, TRUE), "jpeg_start_compress",
                       "started", 0)

OrdWriteMarker ==
  /\ OrderCall
  /\ OrdCompressCalled(jpeg_write_marker(cinfo, M_COM, utext), "jpeg_write_marker",
                       app.cphase, app.rows_in)

OrdScanlinesWritten(r) ==
  OrdCompressCalled(r.c, "jpeg_write_scanlines", app.cphase, app.rows_in + r.row_ctr)

OrdWriteScanlines ==
  /\ OrderCall
  /\ \E num_lines \in {1, cinfo.image_height} :
       OrdScanlinesWritten(
         jpeg_write_scanlines(cinfo, ImageData(app.image, 1), num_lines))

OrdFinishCompress ==
  /\ OrderCall
  /\ OrdCompressCalled(jpeg_finish_compress(cinfo), "jpeg_finish_compress",
                       "created", 0)

\* A call on the decompression object has left d.
OrdDecompressCalled(d, call, phase, rows) ==
  /\ dinfo' = d
  /\ app' = [app EXCEPT !.calls = @ + 1, !.last = call,
                        !.dphase = IF d.asserted THEN @ ELSE phase,
                        !.rows_out = IF d.asserted THEN @ ELSE rows]
  /\ UNCHANGED cinfo

OrdHeaderRead(r) ==
  OrdDecompressCalled(r.d, "jpeg_read_header",
                      IF r.val = JPEG_HEADER_OK THEN "header" ELSE app.dphase,
                      app.rows_out)

OrdReadHeader ==
  /\ OrderCall
  /\ OrdHeaderRead(jpeg_read_header(dinfo, TRUE))

OrdDecompressStarted(r) ==
  OrdDecompressCalled(r.d, "jpeg_start_decompress",
                      IF r.ok THEN "started" ELSE app.dphase, 0)

OrdStartDecompress ==
  /\ OrderCall
  /\ OrdDecompressStarted(jpeg_start_decompress(dinfo))

OrdScanlinesRead(r) ==
  OrdDecompressCalled(r.d, "jpeg_read_scanlines", app.dphase,
                      app.rows_out + r.row_ctr)

OrdReadScanlines ==
  /\ OrderCall
  /\ \E max_lines \in {1, DecImages[app.i].height} :
       OrdScanlinesRead(jpeg_read_scanlines(dinfo, max_lines))

OrdDecompressFinished(r) ==
  OrdDecompressCalled(r.d, "jpeg_finish_decompress",
                      IF r.ok THEN "created" ELSE app.dphase, app.rows_out)

OrdFinishDecompress ==
  /\ OrderCall
  /\ OrdDecompressFinished(jpeg_finish_decompress(dinfo))

NextOrder ==
  \/ OrdSetDefaults
  \/ OrdSetQuality
  \/ OrdStartCompress
  \/ OrdWriteMarker
  \/ OrdWriteScanlines
  \/ OrdFinishCompress
  \/ OrdReadHeader
  \/ OrdStartDecompress
  \/ OrdReadScanlines
  \/ OrdFinishDecompress

SpecOrder == InitOrder /\ [][NextOrder]_vars

\* The step is the given call.
OrderStep(calls) == app'.calls = app.calls + 1 /\ app'.last \in calls

\* C12: the call order is enforced by assertion.  jpeg_write_scanlines,
\* jpeg_write_marker and jpeg_finish_compress before jpeg_start_compress;
\* jpeg_start_compress, jpeg_set_defaults and jpeg_set_quality after it;
\* jpeg_finish_compress and jpeg_finish_decompress before all rows are
\* through; jpeg_read_scanlines and jpeg_finish_decompress before
\* jpeg_start_decompress; jpeg_read_header and jpeg_start_decompress after
\* it: each of these calls fails an assertion.
C12_CallOrderEnforced ==
  [][/\ (app.cphase = "created"
         /\ OrderStep({"jpeg_write_scanlines", "jpeg_write_marker",
                       "jpeg_finish_compress"})) => cinfo'.asserted
     /\ (app.cphase = "started"
         /\ OrderStep({"jpeg_start_compress", "jpeg_set_defaults",
                       "jpeg_set_quality"})) => cinfo'.asserted
     /\ (app.cphase = "started" /\ app.rows_in < app.image.height
         /\ OrderStep({"jpeg_finish_compress"})) => cinfo'.asserted
     /\ (app.dphase = "started" /\ app.rows_out < DecImages[app.i].height
         /\ OrderStep({"jpeg_finish_decompress"})) => dinfo'.asserted
     /\ (app.dphase # "started"
         /\ OrderStep({"jpeg_read_scanlines", "jpeg_finish_decompress"}))
          => dinfo'.asserted
     /\ (app.dphase = "started"
         /\ OrderStep({"jpeg_read_header", "jpeg_start_decompress"}))
          => dinfo'.asserted]_vars

\* jpeg_read_header was called on a started decompression and failed its
\* assertion; no call on the compression object had failed before.
C12_LateReadHeaderAsserts ==
  /\ app.entry = "order" /\ app.last = "jpeg_read_header"
  /\ app.dphase = "started" /\ dinfo.asserted
  /\ ~cinfo.asserted


(***************************************************************************)
(* The working memory (jscmemstatic.c, jmemmgr.c)                          *)
(***************************************************************************)
\* The allocator itself is modelled with the objects of the decoder above.
\* jpeg_CreateCompress: the object is zeroed but for statmem, then the
\* memory manager is set up.
jpeg_CreateCompress_ready(c) ==
  IF c.asserted THEN c ELSE [c EXCEPT !.global_state = CSTATE_START]

jpeg_CreateCompress(c) ==
  jpeg_CreateCompress_ready(jinit_memory_mgr([c EXCEPT !.global_state = 0]))

\* Bounds of the working memory scenarios: the sizes of the objects asked
\* for and their number per routine.
MaxRequests == 3
RequestSizes == {1, 8, 12, 40}

\* The working memories: around the size of the control block, a few
\* objects, and around the size jsc_compress_rst demands.
ArenaSizes ==
  {1, 8, 31, 32, 33, 40, 48, 56, 64, 72, 96, 128,
   JSC_WORKING_MEM_SIZE(1, DCTSIZE) - 1, JSC_WORKING_MEM_SIZE(1, DCTSIZE)}

RequestSeqs == UNION {[1..n -> RequestSizes] : n \in 1..MaxRequests}

\* An application gives a working memory to a compression object, creates
\* it, sets the parameters and starts it; through jsc_compress_rst the size
\* of the working memory is checked first.
InitMem ==
  /\ \E size \in ArenaSizes, jsc \in BOOLEAN :
       /\ cinfo = [global_state |-> 0, statmem |-> jpeg_give_static_mem(size),
                   mem |-> NULL, ptr |-> NULL, objects |-> {}, written |-> {},
                   asserted |-> FALSE, msg_code |-> "none"]
       /\ app = [entry |-> "mem", jsc |-> jsc,
                 image |-> JscImage(DCTSIZE, DCTSIZE, 1, "JCS_GRAYSCALE"),
                 working_size |-> size,
                 pc |-> IF jsc THEN "check" ELSE "create",
                 last |-> "none", sizes |-> <<>>]
  /\ dinfo = NoDecompress

MemAfter(c, pc) == IF c.asserted THEN "aborted" ELSE pc

\* The check of the working memory at the start of jsc_compress_rst.
MemCheckWorkingMem ==
  /\ app.entry = "mem" /\ app.pc = "check"
  /\ cinfo' = IF app.working_size
                   >= JSC_WORKING_MEM_SIZE(app.image.n_components, app.image.width)
              THEN cinfo ELSE [cinfo EXCEPT !.asserted = TRUE]
  /\ app' = [app EXCEPT !.pc = MemAfter(cinfo', "create"),
                        !.last = "jsc_compress_rst"]
  /\ UNCHANGED dinfo

MemCalled(c, call, pc, sizes) ==
  /\ cinfo' = c
  /\ app' = [app EXCEPT !.pc = MemAfter(c, pc), !.last = call,
                        !.sizes = @ \o sizes]
  /\ UNCHANGED dinfo

MemCreateCompress ==
  /\ app.entry = "mem" /\ app.pc = "create"
  /\ MemCalled(jpeg_CreateCompress(cinfo), "jpeg_create_compress", "params", <<>>)

\* jpeg_set_defaults and jpeg_set_quality obtain the component array and
\* the tables.
MemSetDefaults ==
  /\ app.entry = "mem" /\ app.pc = "params"
  /\ \E sizes \in RequestSeqs :
       MemCalled(get_mem_requests(cinfo, sizes, 1), "jpeg_set_defaults",
                 "start", sizes)

\* jpeg_start_compress obtains the modules of the pipeline and their
\* buffers.
MemStarted(c) ==
  IF c.asserted THEN c ELSE [c EXCEPT !.global_state = CSTATE_SCANNING]

MemStartCompress ==
  /\ app.entry = "mem" /\ app.pc = "start"
  /\ \E sizes \in RequestSeqs :
       MemCalled(MemStarted(get_mem_requests(cinfo, sizes, 1)),
                 "jpeg_start_compress", "scanning", sizes)

NextMem ==
  \/ MemCheckWorkingMem
  \/ MemCreateCompress
  \/ MemSetDefaults
  \/ MemStartCompress

SpecMem == InitMem /\ [][NextMem]_vars

\* The bytes the control block and the first k objects asked for take.
BytesNeeded(k) ==
  SIZEOF_my_memory_mgr
  + SumSeq([j \in 1..k |-> sizeofobject_adjust(app.sizes[j])], k)

\* The number of objects obtained after the control block.
ObjectsObtained == Cardinality(cinfo.objects) - 1

\* A routine has asked for an object that does not fit in what is left.
Exhausted ==
  /\ app.entry = "mem" /\ app.last \in {"jpeg_set_defaults", "jpeg_start_compress"}
  /\ BytesNeeded(Len(app.sizes)) > app.working_size

\* The statement of C18 for the allocator as it stands: on exhaustion the
\* allocator returns NULL and the caller gets an OUT_OF_MEMORY report.
C18_ExhaustionReported ==
  Exhausted => /\ cinfo.ptr = NULL
               /\ cinfo.msg_code = "JERR_OUT_OF_MEMORY" /\ ~cinfo.asserted

\* C18: when an object asked for does not fit in what is left of the
\* working memory, jpeg_get_mem returns NULL and leaves the memory as it
\* is, and get_mem fails an assertion; no OUT_OF_MEMORY is reported.
C18_ExhaustionAsserts ==
  Exhausted => /\ cinfo.ptr = NULL
               /\ cinfo.statmem.bytes_used = BytesNeeded(ObjectsObtained)
               /\ cinfo.asserted /\ cinfo.msg_code = "none"

\* jpeg_start_compress has asked for an object that does not fit after
\* objects that did.
C18_StartCompressExhausted ==
  /\ Exhausted /\ app.last = "jpeg_start_compress"
  /\ ObjectsObtained > 0 /\ cinfo.ptr = NULL /\ cinfo.asserted

\* C19: a working memory too small for the compressor is caught at once.
\* jsc_compress_rst asserts the size it demands; jpeg_create_compress
\* asserts when the control block does not fit; jpeg_set_defaults and
\* jpeg_start_compress assert at the first object that does not fit, having
\* obtained all objects before it; and every object written lies inside the
\* working memory.
C19_FailFast ==
  app.entry = "mem" =>
    /\ (app.jsc /\ app.pc # "check") =>
         (app.working_size < JSC_WORKING_MEM_SIZE(app.image.n_components,
                                                  app.image.width)
          <=> app.last = "jsc_compress_rst" /\ app.pc = "aborted")
    /\ app.last = "jpeg_create_compress" =>
         (app.working_size < SIZEOF_my_memory_mgr
          <=> cinfo.asserted /\ cinfo.mem = NULL)
    /\ app.last \in {"jpeg_set_defaults", "jpeg_start_compress"} =>
         /\ BytesNeeded(ObjectsObtained) <= app.working_size
         /\ IF cinfo.asserted
            THEN /\ ObjectsObtained < Len(app.sizes)
                 /\ BytesNeeded(ObjectsObtained + 1) > app.working_size
            ELSE ObjectsObtained = Len(app.sizes)
    /\ \A w \in cinfo.written : w.at >= 0 /\ w.at + w.size <= app.working_size
    /\ cinfo.statmem.bytes_used + cinfo.statmem.bytes_free = app.working_size
    /\ cinfo.statmem.bytes_free >= 0

\* jpeg_start_compress has failed its assertion in a working memory that
\* held the control block and the objects of jpeg_set_defaults.
C19_StartCompressAsserts ==
  /\ app.entry = "mem" /\ app.last = "jpeg_start_compress"
  /\ app.pc = "aborted" /\ cinfo.asserted
  /\ cinfo.mem # NULL /\ cinfo.written # {}

(***************************************************************************)
(* What jsc_compress reports of the output buffer (jsc_compress.c)         *)
(***************************************************************************)
\* C20: whenever jsc_compress or jsc_compress_rst returns, n_bytes_used of
\* the output buffer (outsize of the memory destination) is the number of
\* bytes written to the buffer; on a return of 0 that is the length of the
\* stream.
C20_BytesUsed ==
  (JscCall /\ app.returned) =>
    /\ cinfo.outsize = cinfo.hiwater
    /\ app.ret = 0 => cinfo.outsize = Len(cinfo.buf)

\* jsc_compress has returned -1: the buffer is written to its end, beyond
\* the data the entropy encoder has committed.
C20_FailedWithFullBuffer ==
  /\ JscReturned(-1)
  /\ cinfo.outsize = cinfo.hiwater
  /\ Len(cinfo.buf) < cinfo.outsize

(***************************************************************************)
(* The entropy encoder called MCU by MCU (jchuff.c)                        *)
(***************************************************************************)
\* Bounds of the entropy coding scenarios: the restart interval, the bytes
\* of the output buffer behind the headers, the MCUs of a scan.
MaxRestart == 2
MaxSlack == 12
MaxMcus == 5

EncImages ==
  {JscImage(DCTSIZE, DCTSIZE, 1, "JCS_GRAYSCALE"),
   JscImage(DCTSIZE, DCTSIZE, 4, "JCS_CMYK")}

\* The blocks of the scenarios: an empty one, one with a zero run of more
\* than 16 coefficients before its last coefficient, one ending in a zero
\* run, one with the extreme values.
EncBlocks ==
  {CoefBlock(0, 0, 0), CoefBlock(3, -2, 1), CoefBlock(-5, 7, 0),
   CoefBlock(1023, -1023, 1023)}

\* The object at the start of the scan: the headers are written, the
\* entropy encoder is started with the restart interval.
ScanStarted(image, outsize, restart_interval) ==
  pass_startup_std(
    jpeg_start_compress(
      [jpeg_create_compress(image, outsize, Quality)
         EXCEPT !.restart_interval = restart_interval],
      TRUE))

\* The length of the headers.
ScanHeaderLen(image, restart_interval) ==
  Len(ScanStarted(image, 4096, restart_interval).buf)

InitEnc ==
  /\ \E image \in EncImages, restart_interval \in 0..MaxRestart,
        slack \in 1..MaxSlack :
       /\ cinfo = ScanStarted(image,
                              ScanHeaderLen(image, restart_interval) + slack,
                              restart_interval)
       /\ app = [entry |-> "encode_mcu", image |-> image,
                 start |-> ScanHeaderLen(image, restart_interval),
                 calls |-> 0, ok |-> TRUE, mcus |-> <<>>, last |-> "none"]
  /\ dinfo = NoDecompress

\* encode_mcu_huff has returned r for the MCU data.
McuEncoded(r, MCU_data) ==
  /\ cinfo' = r.c
  /\ app' = [app EXCEPT !.calls = @ + 1, !.ok = r.ok, !.last = "encode_mcu",
                        !.mcus = IF r.ok THEN Append(@, MCU_data) ELSE @]

\* The coefficient controller hands the entropy encoder an MCU; after a
\* failure it hands it the same MCU or gives up.
EncodeMcu ==
  /\ app.entry = "encode_mcu" /\ app.last # "finish_pass"
  /\ ~cinfo.asserted /\ app.calls < MaxMcus
  /\ \E block \in EncBlocks :
       McuEncoded(
         encode_mcu_huff(cinfo, [ci \in 1..app.image.n_components |-> block]),
         [ci \in 1..app.image.n_components |-> block])
  /\ UNCHANGED dinfo

\* finish_pass at the end of the scan.
EncFinishPass ==
  /\ app.entry = "encode_mcu" /\ app.last = "encode_mcu" /\ app.ok
  /\ ~cinfo.asserted
  /\ cinfo' = finish_pass_huff(cinfo)
  /\ app' = [app EXCEPT !.last = "finish_pass"]
  /\ UNCHANGED dinfo

NextEnc ==
  \/ EncodeMcu
  \/ EncFinishPass

SpecEnc == InitEnc /\ [][NextEnc]_vars

\* The step is a call of encode_mcu_huff that fails.
EncodeMcuFails ==
  /\ app.entry = "encode_mcu" /\ app'.calls = app.calls + 1 /\ ~app'.ok

\* C21: when encode_mcu_huff fails for lack of output space, the write
\* position and the free count of the destination, the saved bit buffer,
\* the last_dc predictions, restarts_to_go and next_restart_num are what
\* they were before the call.
C21_CleanRewind ==
  [][EncodeMcuFails =>
       /\ cinfo'.buf = cinfo.buf
       /\ cinfo'.free_in_buffer = cinfo.free_in_buffer
       /\ cinfo'.put_buffer = cinfo.put_buffer
       /\ cinfo'.put_bits = cinfo.put_bits
       /\ cinfo'.last_dc_val = cinfo.last_dc_val
       /\ cinfo'.restarts_to_go = cinfo.restarts_to_go
       /\ cinfo'.next_restart_num = cinfo.next_restart_num]_vars

\* encode_mcu_huff has failed behind a restart marker it had emitted into
\* its working state, after MCUs that went through: bytes beyond the write
\* position were written and bits were pending.
C21_FailedBehindRestart ==
  /\ app.entry = "encode_mcu" /\ app.last = "encode_mcu" /\ ~app.ok
  /\ Len(app.mcus) > 0
  /\ cinfo.restart_interval # 0 /\ cinfo.restarts_to_go = 0
  /\ cinfo.hiwater > Len(cinfo.buf)
  /\ cinfo.put_bits > 0

(***************************************************************************)
(* The coefficient controller over a destination that suspends (jccoefct.c)*)
(***************************************************************************)
\* The bytes of room the destination gains at a time.
MaxRoom == 3

CoefImages ==
  {JscImage(2 * DCTSIZE, 2 * DCTSIZE, 1, "JCS_GRAYSCALE"),
   JscImage(3 * DCTSIZE, DCTSIZE, 1, "JCS_GRAYSCALE")}

\* compress_data for every iMCU row that is left.
RECURSIVE CompressRows(_, _)
CompressRows(c, mcus) ==
  IF c.asserted \/ c.iMCU_row_num >= c.total_iMCU_rows THEN c
  ELSE CompressRows(compress_data(c, mcus).c, mcus)

\* The scan of an image written without a suspension.
WholeScan(image, pattern, restart_interval) ==
  CompressRows(ScanStarted(image, 4096, restart_interval),
               ImageData(image, pattern))

IsPrefix(s, t) == Len(s) <= Len(t) /\ SubSeq(t, 1, Len(s)) = s

\* compress_data is called for the iMCU rows of an image with an output
\* buffer that ends behind the headers; after a failure the destination is
\* given room and compress_data is called again.
InitCoef ==
  /\ \E image \in CoefImages, pattern \in 2..MaxPattern,
        restart_interval \in 0..1, slack \in 1..MaxSlack :
       /\ cinfo = ScanStarted(image,
                              ScanHeaderLen(image, restart_interval) + slack,
                              restart_interval)
       /\ app = [entry |-> "compress_data", image |-> image, pattern |-> pattern,
                 whole |-> WholeScan(image, pattern, restart_interval),
                 ok |-> TRUE, last |-> "none", fails |-> 0, mid |-> FALSE]
  /\ dinfo = NoDecompress

CoefCompressed(r) ==
  /\ cinfo' = r.c
  /\ app' = [app EXCEPT !.ok = r.ok, !.last = "compress_data",
                        !.fails = IF r.ok THEN @ ELSE @ + 1,
                        !.mid = @ \/ (~r.ok /\ r.c.mcu_ctr > 0)]

CoefCompressData ==
  /\ app.entry = "compress_data" /\ ~cinfo.asserted
  /\ cinfo.iMCU_row_num < cinfo.total_iMCU_rows
  /\ app.last = "compress_data" => app.ok
  /\ CoefCompressed(compress_data(cinfo, ImageData(app.image, app.pattern)))
  /\ UNCHANGED dinfo

\* The application makes room behind the write position of the
\* destination.
CoefMakeRoom ==
  /\ app.entry = "compress_data" /\ ~cinfo.asserted
  /\ app.last = "compress_data" /\ ~app.ok
  /\ \E room \in 1..MaxRoom :
       cinfo' = [cinfo EXCEPT !.bufsize = @ + room, !.free_in_buffer = @ + room]
  /\ app' = [app EXCEPT !.last = "room"]
  /\ UNCHANGED dinfo

NextCoef ==
  \/ CoefCompressData
  \/ CoefMakeRoom

SpecCoef == InitCoef /\ [][NextCoef]_vars

\* The MCUs compress_data has put out: those of the finished iMCU rows and
\* those in front of mcu_ctr.
McusOut(c) == c.iMCU_row_num * c.MCUs_per_row + c.mcu_ctr

ResyncTails == {<<>>, <<255, M_EOI>>, <<255, M_RST0 + 3>>, <<90, 255, M_EOI>>}

\* The marker codes read_restart_marker can hand over: any byte but 0 and
\* 0xFF.
FoundMarkers == 1..254

\* jpeg_resync_to_restart is called with a marker that is not the desired
\* restart marker, in front of one of the tails.
InitResync ==
  /\ cinfo = NoCompress
  /\ \E marker \in FoundMarkers, desired \in 0..7, tail \in ResyncTails :
       /\ marker # M_RST0 + desired
       /\ dinfo = [jpeg_CreateDecompress(tail, 0)
                     EXCEPT !.unread_marker = marker, !.restart_interval = 1,
                            !.next_restart_num = desired]
       /\ app = [entry |-> "resync", marker |-> marker, desired |-> desired,
                 called |-> FALSE, ok |-> TRUE]

ResyncToRestart ==
  /\ app.entry = "resync" /\ ~app.called
  /\ dinfo' = jpeg_resync_to_restart(dinfo, app.desired).d
  /\ app' = [app EXCEPT !.called = TRUE,
                        !.ok = jpeg_resync_to_restart(dinfo, app.desired).ok]
  /\ UNCHANGED cinfo

NextResync == ResyncToRestart

SpecResync == InitResync /\ [][NextResync]_vars

\* The restart markers k counts from the desired one, k in counts.
RestartsAt(counts) == {M_RST0 + ((app.desired + k) % 8) : k \in counts}

\* What the call did with the marker it was given.
\* Action 2: input was read in search of another marker.
ScannedForward ==
  app.called /\ (~app.ok \/ dinfo.next_input_byte > 0
                 \/ dinfo.discarded_bytes > 0)
\* Action 3: the marker is still unread and no input was read.
LeftUnread ==
  /\ app.called /\ app.ok /\ dinfo.next_input_byte = 0
  /\ dinfo.unread_marker = app.marker
\* Action 1: the marker is gone and no input was read.
Discarded ==
  /\ app.called /\ app.ok /\ dinfo.next_input_byte = 0
  /\ dinfo.unread_marker = 0

\* C27 as stated: a code below 0xC0 and a restart marker one or two counts
\* before or behind the desired one are scanned past, any other marker that
\* is no restart marker is left unread, a restart marker further away is
\* discarded.
C27_DecisionTable ==
  (app.entry = "resync" /\ app.called) =>
    /\ (app.marker < M_SOF0 \/ app.marker \in RestartsAt({1, 2, 6, 7}))
         => ScannedForward
    /\ (app.marker >= M_SOF0 /\ app.marker \notin RSTn) => LeftUnread
    /\ app.marker \in RestartsAt({3, 4, 5}) => Discarded

\* C27, amended: a code below 0xC0 and a restart marker one or two counts
\* before the desired one are scanned past; a restart marker one or two
\* counts behind the desired one and any other marker that is no restart
\* marker are left unread; a restart marker further away is discarded.
C27_DecisionTableOfCode ==
  (app.entry = "resync" /\ app.called) =>
    /\ (app.marker < M_SOF0 \/ app.marker \in RestartsAt({6, 7}))
         => ScannedForward /\ ~LeftUnread /\ ~Discarded
    /\ ((app.marker >= M_SOF0 /\ app.marker \notin RSTn)
        \/ app.marker \in RestartsAt({1, 2}))
         => LeftUnread /\ ~ScannedForward
    /\ app.marker \in RestartsAt({3, 4, 5}) => Discarded /\ ~ScannedForward

\* A restart marker two counts behind the desired one was found in front
\* of an EOI marker and is still unread, the EOI still in the input.
C27_NextRestartLeftUnread ==
  /\ app.entry = "resync" /\ app.called /\ app.ok
  /\ app.marker = M_RST0 + ((app.desired + 2) % 8)
  /\ dinfo.buf = <<255, M_EOI>> /\ dinfo.bytes_in_buffer = 2
  /\ dinfo.unread_marker = app.marker

(***************************************************************************)
(* Whole scans with restart intervals, MCU by MCU (jchuff.c)               *)
(***************************************************************************)
\* The MCUs of the longest scan and the longest restart interval.
MaxScanMcus == 10
MaxInterval == 3

\* Blocks ending in a zero run (EOB), with a zero run of 62 (ZRL) and with
\* the largest magnitudes.
ScanBlocks == {CoefBlock(3, -2, 0), CoefBlock(-5, 0, 7), CoefBlock(1023, -1023, 1023)}

\* The restart markers among the bytes buf[lo..hi] of entropy-coded data,
\* as the sequence of their numbers.
RECURSIVE RestartsIn(_, _, _)
RestartsIn(buf, lo, hi) ==
  IF lo >= hi THEN <<>>
  ELSE IF buf[lo] = 255 /\ buf[lo + 1] \in RSTn
  THEN <<buf[lo + 1] - M_RST0>> \o RestartsIn(buf, lo + 2, hi)
  ELSE RestartsIn(buf, lo + 1, hi)

\* The scan of an image of 1..MaxScanMcus MCUs in one MCU row is started
\* with a restart interval; encode_mcu_huff is called for MCU after MCU,
\* then finish_pass_huff.  rst holds, for every restart marker put out, its
\* number and the MCUs coded in front of it.
InitRst ==
  /\ \E n \in 1..MaxScanMcus, restart_interval \in 0..MaxInterval :
       /\ cinfo = ScanStarted(JscImage(n * DCTSIZE, DCTSIZE, 1, "JCS_GRAYSCALE"),
                              4096, restart_interval)
       /\ app = [entry |-> "scan", n |-> n,
                 start |-> ScanHeaderLen(JscImage(n * DCTSIZE, DCTSIZE, 1,
                                                  "JCS_GRAYSCALE"),
                                         restart_interval),
                 mcus |-> <<>>, rst |-> <<>>, last |-> "none"]
  /\ dinfo = NoDecompress

RstMcuEncoded(r, MCU_data) ==
  /\ r.ok
  /\ cinfo' = r.c
  /\ app' = [app EXCEPT
               !.mcus = Append(@, MCU_data), !.last = "encode_mcu",
               !.rst = @ \o [i \in 1..Len(RestartsIn(r.c.buf, Len(cinfo.buf) + 1,
                                                     Len(r.c.buf))) |->
                               [num |-> RestartsIn(r.c.buf, Len(cinfo.buf) + 1,
                                                   Len(r.c.buf))[i],
                                mcus |-> Len(app.mcus)]]]

RstEncodeMcu ==
  /\ app.entry = "scan" /\ app.last # "finish_pass" /\ ~cinfo.asserted
  /\ Len(app.mcus) < app.n
  /\ \E block \in (IF Len(app.mcus) < 2 THEN ScanBlocks
                   ELSE {CoefBlock(3, -2, 0), CoefBlock(-5, 0, 7)}) :
       RstMcuEncoded(encode_mcu_huff(cinfo, <<block>>), <<block>>)
  /\ UNCHANGED dinfo

RstFinishPass ==
  /\ app.entry = "scan" /\ app.last = "encode_mcu" /\ ~cinfo.asserted
  /\ Len(app.mcus) = app.n
  /\ cinfo' = finish_pass_huff(cinfo)
  /\ app' = [app EXCEPT !.last = "finish_pass"]
  /\ UNCHANGED dinfo

NextRst ==
  \/ RstEncodeMcu
  \/ RstFinishPass

SpecRst == InitRst /\ [][NextRst]_vars

\* The working state of an encoder that has put out nothing, with
\* predictions of zero.
FreshState ==
  [buf |-> <<>>, free_in_buffer |-> 4096, hiwater |-> 0,
   put_buffer |-> 0, put_bits |-> 0,
   last_dc_val |-> [ci \in 1..Len(cinfo.comp_info) |-> 0], ok |-> TRUE]

RstMcuStep == app.entry = "scan" /\ app'.last = "encode_mcu"

\* What an MCU coded behind a restart marker leaves: the bits pending are
\* flushed, the marker follows, then the MCU coded from predictions of zero.
BehindRestart ==
  /\ cinfo'.buf = flush_bits_s(working_state(cinfo)).buf
                  \o <<255, M_RST0 + cinfo.next_restart_num>>
                  \o encode_blocks(FreshState, app'.mcus[Len(app'.mcus)], 1).buf
  /\ cinfo'.put_buffer
       = encode_blocks(FreshState, app'.mcus[Len(app'.mcus)], 1).put_buffer
  /\ cinfo'.put_bits
       = encode_blocks(FreshState, app'.mcus[Len(app'.mcus)], 1).put_bits
  /\ cinfo'.next_restart_num = (cinfo.next_restart_num + 1) % 8
  /\ cinfo'.restarts_to_go = cinfo.restart_interval - 1

\* The restart markers after the MCUs coded so far: the k-th (from 0)
\* stands behind (k + 1) * R MCUs and carries the number k mod 8.
RestartsInStep ==
  /\ app.last = "none" => cinfo.restarts_to_go = cinfo.restart_interval
  /\ cinfo.restart_interval = 0 => app.rst = <<>>
  /\ cinfo.restart_interval > 0 =>
       /\ Len(app.rst) = (IF app.mcus = <<>> THEN 0
                          ELSE (Len(app.mcus) - 1) \div cinfo.restart_interval)
       /\ \A k \in 0..(Len(app.rst) - 1) :
            /\ app.rst[k + 1].num = k % 8
            /\ app.rst[k + 1].mcus = (k + 1) * cinfo.restart_interval
       /\ app.rst = [i \in 1..Len(app.rst) |->
                       [num |-> RestartsIn(cinfo.buf, app.start + 1,
                                           Len(cinfo.buf))[i],
                        mcus |-> app.rst[i].mcus]]
       /\ Len(RestartsIn(cinfo.buf, app.start + 1, Len(cinfo.buf))) = Len(app.rst)

\* C25: with a restart interval R > 0 the counter starts at R; an MCU is
\* coded behind a restart marker (bits flushed, FF D0+next_restart_num put
\* out, predictions zero, number stepped modulo 8, counter reloaded)
\* exactly when the counter is zero in front of it, so that R MCUs lie
\* between consecutive markers and the k-th marker carries k mod 8.
C25_RestartCadence ==
  /\ [](app.entry = "scan" => RestartsInStep)
  /\ [][(RstMcuStep /\ cinfo.restart_interval > 0) =>
          /\ (cinfo.restarts_to_go = 0) <=> (Len(app'.rst) = Len(app.rst) + 1)
          /\ cinfo.restarts_to_go = 0 => BehindRestart
          /\ cinfo.restarts_to_go # 0 =>
               /\ cinfo'.restarts_to_go = cinfo.restarts_to_go - 1
               /\ cinfo'.next_restart_num = cinfo.next_restart_num]_vars

\* A scan of ten MCUs with restart interval 1 is complete: its nine
\* restart markers end with RST7 and RST0.
C25_NumbersWrapped ==
  /\ app.entry = "scan" /\ app.last = "finish_pass"
  /\ cinfo.restart_interval = 1 /\ Len(app.mcus) = MaxScanMcus
  /\ Len(app.rst) = 9 /\ app.rst[8].num = 7 /\ app.rst[9].num = 0

(***************************************************************************)
(* The entropy decoder on scans with restart intervals, MCU by MCU         *)
(* (jdhuff.c, jdmarker.c)                                                  *)
(***************************************************************************)
\* The calls of decode_mcu that may fail on one input.
MaxSuspends == 2

\* The scans decoded: sequences of MCUs of one block each, in one MCU row.
ScanMcus ==
  <<[i \in 1..4 |-> <<IF i % 2 = 1 THEN CoefBlock(3, -2, 0) ELSE CoefBlock(-5, 0, 7)>>],
    [i \in 1..4 |-> <<IF i % 2 = 1 THEN DenseBlock(100, -9, 3)
                      ELSE CoefBlock(-1023, 0, 0)>>],
    [i \in 1..MaxScanMcus |-> <<CoefBlock(i, 0, 0)>>]>>

\* The datastream of a scan written with a restart interval.
ScanStream(mcus, restart_interval) ==
  write_file_trailer(
    finish_pass_huff(
      CompressRows(ScanStarted(JscImage(Len(mcus) * DCTSIZE, DCTSIZE, 1,
                                        "JCS_GRAYSCALE"),
                               4096, restart_interval),
                   <<mcus>>))).buf

\* The scans with their restart intervals and datastreams.
Scans ==
  {[i |-> i, restart_interval |-> ri, buf |-> ScanStream(ScanMcus[i], ri)] :
     i \in 1..2, ri \in 0..2}
  \cup {[i |-> 3, restart_interval |-> 1, buf |-> ScanStream(ScanMcus[3], 1)]}

\* The offset of the last byte of the SOS segment: the entropy-coded data
\* starts behind it.
ScanHeaderEnd(buf) ==
  HeaderLen(buf) + buf[HeaderLen(buf) + 1] * 256 + buf[HeaderLen(buf) + 2]

\* The garbage that overwrites four bytes: two stuffed 0xFF.
StuffedRun == <<255, 0, 255, 0>>

\* The inputs: the datastreams, those cut off within the entropy-coded data
\* or the EOI marker, and those with a byte or four bytes of the
\* entropy-coded data overwritten.
ScanInputs ==
  {[kind |-> "valid", scan |-> s, at |-> 0, buf |-> s.buf] : s \in Scans}
  \cup UNION {{[kind |-> "prefix", scan |-> s, at |-> at,
                buf |-> SubSeq(s.buf, 1, at)] :
                 at \in ScanHeaderEnd(s.buf)..(Len(s.buf) - 1)} : s \in Scans}
  \cup UNION {{[kind |-> "byte", scan |-> s, at |-> at,
                buf |-> CorruptByte(s.buf, at, g)] :
                 at \in (ScanHeaderEnd(s.buf) + 1)..(Len(s.buf) - 2),
                 g \in garbage_bytes} : s \in Scans}
  \cup UNION {{[kind |-> "span", scan |-> s, at |-> at,
                buf |-> OverwriteSpan(s.buf, at, StuffedRun)] :
                 at \in (ScanHeaderEnd(s.buf) + 1)..(Len(s.buf) - 5)} : s \in Scans}

\* The object at the first MCU of the scan: behind jpeg_read_header and
\* jpeg_start_decompress.
ScanOpened(buf) ==
  jpeg_start_decompress(
    jpeg_read_header(
      jpeg_CreateDecompress(buf, JSC_WORKING_MEM_SIZE(1, MaxScanMcus * DCTSIZE)),
      TRUE).d).d

\* decode_mcu is called for MCU after MCU of the scan, again after a FALSE
\* return.  segs holds the warnings of the restart segments left behind,
\* seg_base the warnings at the start of the segment at hand.
InitScan ==
  /\ cinfo = NoCompress
  /\ \E input \in ScanInputs :
       /\ input.kind # "valid" => input.buf # input.scan.buf
       /\ dinfo = ScanOpened(input.buf)
       /\ dinfo.global_state = DSTATE_SCANNING
       /\ app = [entry |-> "decode_mcu", kind |-> input.kind,
                 i |-> input.scan.i, at |-> input.at,
                 calls |-> 0, ok |-> TRUE, suspends |-> 0, mcus |-> <<>>,
                 restarts |-> 0, segs |-> <<>>,
                 seg_base |-> dinfo.num_warnings]

\* Whether the call that left r.d went through process_restart.
Restarted(r) ==
  /\ dinfo.restart_interval # 0 /\ dinfo.restarts_to_go = 0
  /\ r.d.restarts_to_go > 0 \/ r.ok

WarningsSince(base, d) ==
  [JWRN_HIT_MARKER |-> d.num_warnings.JWRN_HIT_MARKER - base.JWRN_HIT_MARKER,
   JWRN_HUFF_BAD_CODE |-> d.num_warnings.JWRN_HUFF_BAD_CODE - base.JWRN_HUFF_BAD_CODE]

ScanMcuDecoded(r) ==
  /\ dinfo' = r.d
  /\ app' = [app EXCEPT
               !.calls = @ + 1, !.ok = r.ok,
               !.suspends = IF r.ok THEN @ ELSE @ + 1,
               !.mcus = IF r.ok THEN Append(@, r.mcu) ELSE @,
               !.restarts = IF Restarted(r) THEN @ + 1 ELSE @,
               !.segs = IF Restarted(r)
                        THEN Append(@, WarningsSince(app.seg_base, dinfo)) ELSE @,
               !.seg_base = IF Restarted(r) THEN dinfo.num_warnings ELSE @]

ScanDecodeMcu ==
  /\ app.entry = "decode_mcu" /\ ~dinfo.asserted /\ ~dinfo.hung
  /\ Len(app.mcus) < dinfo.MCUs_per_row
  /\ app.suspends < MaxSuspends
  /\ ScanMcuDecoded(decode_mcu(dinfo))
  /\ UNCHANGED cinfo

NextScan == ScanDecodeMcu

SpecScan == InitScan /\ [][NextScan]_vars

\* A call of decode_mcu that returns FALSE.
ScanMcuSuspends ==
  app.entry = "decode_mcu" /\ app'.calls = app.calls + 1 /\ ~app'.ok

\* The bit buffer, the predictions, the restart counter, the counters of
\* the marker reader and the read position are those before the call.
StateKept ==
  /\ dinfo'.get_buffer = dinfo.get_buffer
  /\ dinfo'.last_dc_val = dinfo.last_dc_val
  /\ dinfo'.restarts_to_go = dinfo.restarts_to_go
  /\ dinfo'.next_restart_num = dinfo.next_restart_num
  /\ dinfo'.discarded_bytes = dinfo.discarded_bytes
  /\ dinfo'.next_input_byte = dinfo.next_input_byte
  /\ dinfo'.bytes_in_buffer = dinfo.bytes_in_buffer

\* C22 as stated: a call of decode_mcu that returns FALSE on a datastream
\* that was cut off leaves the saved state of the entropy decoder, the
\* counters of the marker reader and the read position as they were.
C22_SuspendKeepsState ==
  [][(ScanMcuSuspends /\ app.kind = "prefix") => StateKept]_vars

\* The state behind a completed process_restart, in front of the MCU.
RestartKept ==
  /\ dinfo'.get_buffer = <<>>
  /\ dinfo'.last_dc_val = [ci \in 1..dinfo.comps_in_scan |-> 0]
  /\ dinfo'.restarts_to_go = dinfo.restart_interval
  /\ dinfo'.next_restart_num = (dinfo.next_restart_num + 1) % 8
  /\ dinfo'.next_input_byte >= dinfo.next_input_byte

\* The state of a process_restart that found no marker: the bit buffer is
\* thrown away, input in front of the marker may be skipped.
RestartPending ==
  /\ dinfo'.get_buffer = <<>>
  /\ dinfo'.last_dc_val = dinfo.last_dc_val
  /\ dinfo'.restarts_to_go = 0
  /\ dinfo'.next_restart_num = dinfo.next_restart_num
  /\ dinfo'.next_input_byte >= dinfo.next_input_byte

\* C22, amended: a call of decode_mcu that returns FALSE leaves the state at
\* a point the call can be repeated from.  A call that has no restart to
\* process leaves the saved state, the counters of the marker reader and
\* the read position as they were; a call entered with restarts_to_go = 0
\* keeps what process_restart got done.
C22_SuspendAtResumePoint ==
  [][ScanMcuSuspends =>
       IF dinfo.restart_interval # 0 /\ dinfo.restarts_to_go = 0
       THEN RestartKept \/ RestartPending
       ELSE StateKept]_vars

\* decode_mcu returned FALSE behind a restart marker it had read: the
\* datastream ends within the MCU that follows the marker.
C22_SuspendedBehindRestart ==
  /\ app.entry = "decode_mcu" /\ app.kind = "prefix" /\ ~app.ok
  /\ app.restarts > 0 /\ dinfo.restarts_to_go = dinfo.restart_interval
  /\ dinfo.next_restart_num = app.restarts % 8
  /\ dinfo.bytes_in_buffer >= 0

\* The restart boundaries behind the MCUs decoded: one in front of every
\* MCU that follows a whole restart interval, the last of them once
\* process_restart has reloaded the counter for the MCU to come.
BoundariesPassed ==
  IF app.mcus = <<>> THEN 0
  ELSE (Len(app.mcus) - 1) \div dinfo.restart_interval
       + (IF Len(app.mcus) % dinfo.restart_interval = 0
             /\ dinfo.restarts_to_go = dinfo.restart_interval
          THEN 1 ELSE 0)

\* C26: the restart number expected is 0 at the start of the scan; restarts
\* are processed in front of the MCUs that follow a whole restart interval
\* and nowhere else; at the k-th boundary (from 0) RST(k mod 8) is
\* expected, whatever markers were found at the boundaries before.
C26_RestartLockStep ==
  app.entry = "decode_mcu" =>
    /\ app.calls = 0 => dinfo.next_restart_num = 0
    /\ dinfo.restart_interval = 0 => app.restarts = 0 /\ dinfo.next_restart_num = 0
    /\ dinfo.restart_interval > 0 =>
         /\ app.restarts = BoundariesPassed
         /\ dinfo.next_restart_num = BoundariesPassed % 8
         /\ dinfo.restarts_to_go
              = (IF app.mcus # <<>> /\ Len(app.mcus) % dinfo.restart_interval = 0
                 THEN (IF app.restarts > (Len(app.mcus) - 1) \div dinfo.restart_interval
                       THEN dinfo.restart_interval ELSE 0)
                 ELSE dinfo.restart_interval
                      - (Len(app.mcus) % dinfo.restart_interval))

\* The scan of ten MCUs with restart interval 1 was decoded to its end
\* although a restart marker did not match: nine boundaries were passed
\* and RST1 is expected next.
C26_MismatchCounted ==
  /\ app.entry = "decode_mcu" /\ app.kind = "byte" /\ app.i = 3
  /\ dinfo.msg_code = "JWRN_MUST_RESYNC"
  /\ Len(app.mcus) = MaxScanMcus /\ app.restarts = 9
  /\ dinfo.next_restart_num = 1

\* The entropy decoder has read no byte beyond the end of the input.
WithinInput ==
  /\ dinfo.bytes_in_buffer >= 0
  /\ dinfo.next_input_byte + dinfo.bytes_in_buffer = Len(dinfo.buf)

\* The call of decode_mcu that has just returned could not be supplied
\* with the bits of its MCU: the input had run out (the call returned FALSE
\* with no input left) or a marker was pending.
BitsLacked ==
  \/ ~app.ok /\ dinfo.bytes_in_buffer = 0
  \/ dinfo.insufficient_data

\* C28 as stated: no byte beyond the end of the input is read, and a call
\* of decode_mcu that lacks bits, the input being used up or a marker
\* pending, goes on with zero bits and returns its MCU.
C28_ZeroBitsOnUnderflow ==
  (app.entry = "decode_mcu" /\ app.calls > 0) =>
    /\ WithinInput
    /\ BitsLacked => app.ok

\* C28, amended: no byte beyond the end of the input is read; zero bits are
\* made up only behind a marker read from the input, and decode_mcu then
\* returns its MCU; with the input used up decode_mcu returns FALSE and
\* delivers nothing, and so does every repetition of the call.
C28_ZeroBitsAtMarker ==
  (app.entry = "decode_mcu" /\ app.calls > 0) =>
    /\ WithinInput
    /\ dinfo.insufficient_data =>
         \E j \in 2..dinfo.next_input_byte :
           dinfo.buf[j] = dinfo.unread_marker /\ dinfo.buf[j - 1] = 255
    /\ (dinfo.insufficient_data /\ app.suspends = 0) => app.ok
    /\ (app.kind = "prefix" /\ Len(app.mcus) < dinfo.MCUs_per_row
        /\ app.suspends = MaxSuspends)
         => ~app.ok /\ dinfo.unread_marker = 0 /\ ~dinfo.insufficient_data

\* The datastream was cut off: the MCUs in front of the end were decoded
\* and decode_mcu has returned FALSE twice at the end of the input.
C28_SuspendedAtEndOfInput ==
  /\ app.entry = "decode_mcu" /\ app.kind = "prefix" /\ ~app.ok
  /\ app.suspends = MaxSuspends /\ Len(app.mcus) > 0
  /\ dinfo.bytes_in_buffer = 0 /\ ~dinfo.insufficient_data

\* The warnings of the restart segment at hand, and of every restart
\* segment of the scan so far.
SegmentWarnings == WarningsSince(app.seg_base, dinfo)
AllSegments == Append(app.segs, SegmentWarnings)

WarningCount(w) == w.JWRN_HIT_MARKER + w.JWRN_HUFF_BAD_CODE

TermImages ==
  {JscImage(DCTSIZE, 2 * DCTSIZE, 1, "JCS_GRAYSCALE"),
   JscImage(2 * DCTSIZE, 2 * DCTSIZE, 1, "JCS_GRAYSCALE")}

\* Either an application that starts compression into a buffer ending
\* 1..MaxSlack bytes behind the headers and calls jpeg_write_scanlines
\* again and again, or one that decodes a datastream cut off somewhere
\* behind the frame header and goes on calling jpeg_read_scanlines whatever
\* it returns.
InitTerm ==
  \/ /\ \E image \in TermImages, pattern \in 2..MaxPattern, slack \in 1..MaxSlack :
          /\ cinfo = jpeg_create_compress(image, ScanHeaderLen(image, 0) + slack,
                                          Quality)
          /\ app = [entry |-> "api", pc |-> "start", returned |-> FALSE, ret |-> 0,
                    image |-> image, pattern |-> pattern, n_restart_sections |-> 0,
                    hdr |-> {}, calls |-> 0, started |-> FALSE,
                    scanlines_called |-> FALSE,
                    last |-> "none", lines_asked |-> 0, rows_written |-> 0]
     /\ dinfo = NoDecompress
  \/ /\ cinfo = NoCompress
     /\ \E i \in 1..2, at \in 1..(Len(DecStreams[1]) + Len(DecStreams[2])) :
          /\ at > HeaderLen(DecStreams[i]) /\ at < Len(DecStreams[i])
          /\ dinfo = jpeg_CreateDecompress(SubSeq(DecStreams[i], 1, at),
                                           DecMemSize(i))
          /\ app = [entry |-> "decode", kind |-> "prefix", i |-> i,
                    at |-> at, len |-> 0, stop |-> FALSE,
                    pc |-> "header", hdr |-> -1, reads |-> 0, short |-> 0,
                    image |-> <<>>, finished |-> FALSE]

NextTerm ==
  \/ ApiStartCompress
  \/ ApiWriteScanlines
  \/ DecReadHeader
  \/ DecStartDecompress
  \/ DecReadScanlines

SpecTerm == InitTerm /\ [][NextTerm]_vars

\* A call of jpeg_write_scanlines on an object whose output has overflowed.
WriteBehindOverflow ==
  /\ app.entry = "api" /\ cinfo.suspended
  /\ app'.calls = app.calls + 1 /\ app'.last = "jpeg_write_scanlines"

\* A call of jpeg_read_scanlines on an object whose input has underflowed:
\* an earlier call delivered no row.
ReadBehindUnderflow ==
  /\ app.entry = "decode" /\ app.short > 0
  /\ app'.reads = app.reads + 1

\* C23: behind an overflow of the output every jpeg_write_scanlines call
\* takes no row and adds no byte to the datastream; behind an underflow of
\* the input every jpeg_read_scanlines call delivers no row and reads no
\* byte.  No such call fails an assertion.
C23_FailureIsTerminal ==
  [][/\ WriteBehindOverflow =>
          /\ app'.rows_written = 0
          /\ cinfo'.next_scanline = cinfo.next_scanline
          /\ cinfo'.buf = cinfo.buf
          /\ cinfo'.free_in_buffer = cinfo.free_in_buffer
          /\ cinfo'.suspended /\ ~cinfo'.asserted
     /\ ReadBehindUnderflow =>
          /\ app'.short = app.short + 1
          /\ dinfo'.output_scanline = dinfo.output_scanline
          /\ dinfo'.next_input_byte = dinfo.next_input_byte
          /\ dinfo'.bytes_in_buffer = dinfo.bytes_in_buffer
          /\ app'.image = app.image
          /\ ~dinfo'.asserted]_vars

\* The output overflowed in the first iMCU row, and the last of three calls
\* of jpeg_write_scanlines, offering the whole image, took nothing.
C23_WritesBehindOverflow ==
  /\ app.entry = "api" /\ cinfo.suspended /\ ~cinfo.asserted
  /\ app.calls = 4 /\ app.last = "jpeg_write_scanlines"
  /\ cinfo.next_scanline = DCTSIZE - 1
  /\ app.lines_asked = cinfo.image_height /\ app.rows_written = 0

(***************************************************************************)
(* The entropy decoder on the output of the entropy encoder                *)
(* (jchuff.c, jdhuff.c)                                                    *)
(***************************************************************************)
\* The MCUs of the longest scan coded and decoded again.
MaxTripMcus == 3

\* A block with the DC value dc and the value v at zigzag position k.
ZigzagBlock(dc, k, v) ==
  [n \in 1..DCTSIZE2 |-> IF n = 1 THEN dc
                         ELSE IF n = jpeg_natural_order[k + 1] + 1 THEN v ELSE 0]

\* The blocks coded: all zero; ending in a zero run behind one coefficient;
\* a coefficient behind runs of 15, of 16 and of 47 zeros, then a zero run;
\* the last coefficient behind a run of 62 zeros; the largest magnitudes
\* with a run of 61 zeros between them; the DC value furthest from 1023.
TripBlocks ==
  {CoefBlock(0, 0, 0), CoefBlock(3, -2, 0),
   ZigzagBlock(1, 16, -1), ZigzagBlock(-1, 17, 1), ZigzagBlock(2, 48, -300),
   CoefBlock(-5, 0, 7), CoefBlock(1023, -1023, 1023), CoefBlock(-1024, 0, 0)}

\* The MCUs of four components (CMYK, all sampled 1x1): one block of each.
TripColorMcus ==
  {<<CoefBlock(3, -2, 0), ZigzagBlock(-1, 17, 1), CoefBlock(-5, 0, 7),
     CoefBlock(1023, -1023, 1023)>>,
   <<CoefBlock(-1024, 0, 0), CoefBlock(1023, -1023, 1023), CoefBlock(0, 0, 0),
     ZigzagBlock(1, 16, -1)>>}

TripImage(n, n_components) ==
  IF n_components = 1
  THEN JscImage(n * DCTSIZE, DCTSIZE, 1, "JCS_GRAYSCALE")
  ELSE JscImage(n * DCTSIZE, DCTSIZE, 4, "JCS_CMYK")

\* The scan of one MCU row of 1..MaxTripMcus MCUs is started with a restart
\* interval.  encode_mcu_huff is called for MCU after MCU, then
\* finish_pass_huff and the trailer; the decoder is opened on the
\* datastream and decode_mcu is called for MCU after MCU.
InitTrip ==
  /\ \E n \in 1..MaxTripMcus, n_components \in {1, 4},
        restart_interval \in 0..MaxInterval :
       /\ cinfo = ScanStarted(TripImage(n, n_components), 4096, restart_interval)
       /\ app = [entry |-> "trip", n |-> n, n_components |-> n_components,
                 mcus |-> <<>>, last |-> "none", ok |-> TRUE, decoded |-> <<>>]
  /\ dinfo = NoDecompress

TripEncodeMcu ==
  /\ app.entry = "trip" /\ app.last \in {"none", "encode_mcu"}
  /\ ~cinfo.asserted
  /\ Len(app.mcus) < app.n
  /\ \E MCU_data \in (IF app.n_components = 1
                      THEN {<<block>> : block \in TripBlocks}
                      ELSE TripColorMcus) :
       /\ encode_mcu_huff(cinfo, MCU_data).ok
       /\ cinfo' = encode_mcu_huff(cinfo, MCU_data).c
       /\ app' = [app EXCEPT !.mcus = Append(@, MCU_data), !.last = "encode_mcu"]
  /\ UNCHANGED dinfo

TripFinish ==
  /\ app.entry = "trip" /\ app.last = "encode_mcu" /\ ~cinfo.asserted
  /\ Len(app.mcus) = app.n
  /\ cinfo' = write_file_trailer(finish_pass_huff(cinfo))
  /\ dinfo' = jpeg_start_decompress(
                jpeg_read_header(
                  jpeg_CreateDecompress(
                    cinfo'.buf,
                    JSC_WORKING_MEM_SIZE(app.n_components,
                                         TripImage(app.n, app.n_components).width)),
                  TRUE).d).d
  /\ app' = [app EXCEPT !.last = "finish"]

TripDecodeMcu ==
  /\ app.entry = "trip" /\ app.last \in {"finish", "decode_mcu"}
  /\ app.ok /\ ~dinfo.asserted
  /\ Len(app.decoded) < app.n
  /\ dinfo' = decode_mcu(dinfo).d
  /\ app' = [app EXCEPT !.last = "decode_mcu", !.ok = decode_mcu(dinfo).ok,
                        !.decoded = IF decode_mcu(dinfo).ok
                                    THEN Append(@, decode_mcu(dinfo).mcu) ELSE @]
  /\ UNCHANGED cinfo

NextTrip ==
  \/ TripEncodeMcu
  \/ TripFinish
  \/ TripDecodeMcu

SpecTrip == InitTrip /\ [][NextTrip]_vars

\* C30: decode_mcu, called on the datastream the encoder has written for a
\* sequence of MCUs with any restart interval, returns TRUE for every MCU
\* and delivers the 64 coefficients of every block as they were coded, also
\* of blocks coded with ZRL symbols and with EOB; no warning is counted.
C30_RoundTrip ==
  app.entry = "trip" /\ app.last \in {"finish", "decode_mcu"} =>
    /\ dinfo.global_state = DSTATE_SCANNING
    /\ app.ok /\ ~dinfo.asserted
    /\ Len(app.decoded) <= Len(app.mcus)
    /\ \A k \in 1..Len(app.decoded) : app.decoded[k] = app.mcus[k]
    /\ dinfo.num_warnings = [JWRN_HIT_MARKER |-> 0, JWRN_HUFF_BAD_CODE |-> 0]

\* A scan of three MCUs with a restart marker between any two is decoded:
\* a block with one ZRL, one with three ZRL and one of the largest
\* magnitudes.
C30_ScanReproduced ==
  /\ app.entry = "trip" /\ app.last = "decode_mcu"
  /\ cinfo.restart_interval = 1
  /\ app.mcus = <<<<ZigzagBlock(-1, 17, 1)>>, <<CoefBlock(-5, 0, 7)>>,
                  <<CoefBlock(1023, -1023, 1023)>>>>
  /\ app.decoded = app.mcus

(***************************************************************************)
(* Quantization tables defined again behind the first scan header          *)
(* (jdinput.c, jdmarker.c)                                                 *)
(***************************************************************************)
\* The values of the tables defined again.
LatchValues == {1, 99}

\* A DQT segment defining the table n with 64 values v.
DqtSegment(n, v) ==
  <<255, M_DQT, 0, DCTSIZE2 + 3, n>> \o [k \in 1..DCTSIZE2 |-> v]

\* The table of the first DQT segment of a stream, in natural order.
FirstDqt(stream) ==
  LET at == CHOOSE j \in 2..Len(stream) :
              /\ stream[j] = M_DQT /\ stream[j - 1] = 255
              /\ \A k \in 2..(j - 1) : ~(stream[k] = M_DQT /\ stream[k - 1] = 255)
  IN [k \in 1..DCTSIZE2 |-> stream[at + 3 + zigzag_of_natural[k]]]

\* The offsets a DQT segment is put in behind: in front of the scan header,
\* in the middle of the entropy-coded data, in front of EOI.
LatchPlaces(i) ==
  [head |-> HeaderLen(DecStreams[i]) - 2, mid |-> EntropyMiddle(i),
   tail |-> Len(DecStreams[i]) - 2]

\* The valid streams with one more DQT segment, for the table the component
\* uses (0) or another one (1).
LatchInputs ==
  {[i |-> i, place |-> place, n |-> n, v |-> v,
    buf |-> InjectBytes(DecStreams[i], LatchPlaces(i)[place], DqtSegment(n, v))] :
     i \in 1..2, place \in {"head", "mid", "tail"}, n \in 0..1, v \in LatchValues}

\* The application decodes such a stream to the end: jpeg_read_header,
\* jpeg_start_decompress, jpeg_read_scanlines row by row whatever it
\* returns, jpeg_finish_decompress.
InitLatch ==
  /\ cinfo = NoCompress
  /\ \E input \in LatchInputs :
       /\ dinfo = jpeg_CreateDecompress(input.buf, DecMemSize(input.i))
       /\ app = [entry |-> "decode", kind |-> input.place, i |-> input.i,
                 at |-> LatchPlaces(input.i)[input.place], len |-> input.n,
                 stop |-> FALSE,
                 pc |-> "header", hdr |-> -1, reads |-> 0, short |-> 0,
                 image |-> <<>>, finished |-> FALSE]

NextLatch ==
  \/ DecReadHeader
  \/ DecStartDecompress
  \/ DecReadScanlines
  \/ DecFinishDecompress

SpecLatch == InitLatch /\ [][NextLatch]_vars

\* C31: the table a component works with is the copy made of its slot at
\* the scan header, that is the table of the first DQT segment; no later
\* call changes it, whatever DQT segment for the same slot or another one
\* it reads behind the scan header.
C31_LatchedTableKept ==
  /\ [](\A ci \in 1..Len(dinfo.comp_info) :
          /\ dinfo.comp_info[ci].quant_table \in {<<>>, FirstDqt(DecStreams[app.i])}
          /\ dinfo.global_state = DSTATE_SCANNING =>
               dinfo.comp_info[ci].quant_table # <<>>)
  /\ [][\A ci \in 1..Len(dinfo.comp_info) :
          dinfo.comp_info[ci].quant_table # <<>> =>
            /\ Len(dinfo'.comp_info) = Len(dinfo.comp_info)
            /\ dinfo'.comp_info[ci].quant_table = dinfo.comp_info[ci].quant_table]_vars

\* The segment defining table 0 again in front of EOI has been read by
\* jpeg_finish_decompress behind the last row: it was refused as a
\* duplicate, and the component has the table of the first DQT segment.
C31_LaterDqtRead ==
  /\ app.entry = "decode" /\ app.kind = "tail" /\ app.len = 0
  /\ dinfo.output_scanline = dinfo.output_height
  /\ dinfo.msg_code = "JERR_JSC_DUPLICATE_QUANT_TBL"
  /\ dinfo.next_input_byte > app.at
  /\ dinfo.comp_info[1].quant_table = FirstDqt(DecStreams[app.i])

(***************************************************************************)
(* The tables written into one datastream (jcmarker.c, jcapimin.c)         *)
(***************************************************************************)
\* The DQT and DHT segments among the marker segments of buf from offset p
\* (the 0xFF of a marker) up to the scan header, each as its marker code
\* and the byte that names its table.  A segment that is not written to
\* its end yet counts from its fifth byte on.
RECURSIVE TableSegments(_, _)
TableSegments(buf, p) ==
  IF p + 1 > Len(buf) \/ buf[p] # 255 THEN <<>>
  ELSE IF buf[p + 1] = M_SOI THEN TableSegments(buf, p + 2)
  ELSE IF buf[p + 1] \in {M_SOS, M_EOI} \/ p + 3 > Len(buf) THEN <<>>
  ELSE (IF buf[p + 1] \in {M_DQT, M_DHT} /\ p + 4 <= Len(buf)
        THEN <<[marker |-> buf[p + 1], table |-> buf[p + 4]]>> ELSE <<>>)
       \o TableSegments(buf, p + 2 + buf[p + 2] * 256 + buf[p + 3])

\* The segments written for a quantization slot and for a Huffman slot.
DqtCount(buf, n) ==
  Cardinality({k \in 1..Len(TableSegments(buf, 1)) :
                 TableSegments(buf, 1)[k] = [marker |-> M_DQT, table |-> n]})

DhtCount(buf, n, is_ac) ==
  Cardinality({k \in 1..Len(TableSegments(buf, 1)) :
                 TableSegments(buf, 1)[k]
                   = [marker |-> M_DHT, table |-> IF is_ac THEN n + 16 ELSE n]})

\* C32: in the datastream written so far every quantization slot has at
\* most one DQT segment and every Huffman slot, DC or AC, at most one DHT
\* segment; a step taken with sent_table set for a table writes no segment
\* for it.
C32_TablesWrittenOnce ==
  /\ [](cinfo # NoCompress =>
          /\ \A n \in 0..(NUM_QUANT_TBLS - 1) : DqtCount(cinfo.buf, n) <= 1
          /\ \A n \in 0..(NUM_HUFF_TBLS - 1), is_ac \in BOOLEAN :
               DhtCount(cinfo.buf, n, is_ac) <= 1)
  /\ [][cinfo # NoCompress =>
          /\ \A n \in 1..Len(cinfo.quant_tbl_ptrs) :
               cinfo.quant_tbl_ptrs[n].sent_table =>
                 DqtCount(cinfo'.buf, n - 1) = DqtCount(cinfo.buf, n - 1)
          /\ \A n \in 1..Len(cinfo.dc_sent) :
               cinfo.dc_sent[n] =>
                 DhtCount(cinfo'.buf, n - 1, FALSE) = DhtCount(cinfo.buf, n - 1, FALSE)
          /\ \A n \in 1..Len(cinfo.ac_sent) :
               cinfo.ac_sent[n] =>
                 DhtCount(cinfo'.buf, n - 1, TRUE) = DhtCount(cinfo.buf, n - 1, TRUE)]_vars

\* The datastream of the CMYK image is complete: its four components use
\* the tables 0, which were written once each.
C32_SharedTablesWritten ==
  /\ cinfo # NoCompress /\ ~cinfo.asserted
  /\ Len(cinfo.comp_info) = 4
  /\ \A ci \in 1..4 : /\ cinfo.comp_info[ci].quant_tbl_no = 0
                      /\ cinfo.comp_info[ci].dc_tbl_no = 0
                      /\ cinfo.comp_info[ci].ac_tbl_no = 0
  /\ Len(cinfo.buf) >= 2
  /\ cinfo.buf[Len(cinfo.buf) - 1] = 255 /\ cinfo.buf[Len(cinfo.buf)] = M_EOI
  /\ DqtCount(cinfo.buf, 0) = 1
  /\ DhtCount(cinfo.buf, 0, FALSE) = 1 /\ DhtCount(cinfo.buf, 0, TRUE) = 1
  /\ cinfo.quant_tbl_ptrs[1].sent_table /\ cinfo.dc_sent[1] /\ cinfo.ac_sent[1]

(***************************************************************************)
(* Huffman tables that are no prefix code (jdmarker.c, jdhuff.c)           *)
(***************************************************************************)
\* The offset of the marker code of the k-th DHT segment of a stream: the
\* table number follows at offset + 3, bits[l] at offset + 3 + l, huffval[i]
\* at offset + 19 + i.
RECURSIVE DhtOffset(_, _, _)
DhtOffset(stream, k, from) ==
  LET j == CHOOSE j \in from..Len(stream) :
             /\ stream[j] = M_DHT /\ stream[j - 1] = 255
             /\ \A m \in from..(j - 1) : ~(stream[m] = M_DHT /\ stream[m - 1] = 255)
  IN IF k = 1 THEN j ELSE DhtOffset(stream, k - 1, j + 1)

HuffBits(stream, j) == [l \in 1..16 |-> stream[j + 3 + l]]

\* The stream with one code of the table at j moved from one length to
\* another: the number of codes and the length of the segment stay.
MoveCode(stream, j, from, to) ==
  [stream EXCEPT ![j + 3 + from] = @ - 1, ![j + 3 + to] = @ + 1]

\* The first valid stream with a code of its DC or its AC table moved, or
\* with a symbol of its DC table replaced by one above 15.
HuffInputs ==
  {[kind |-> "code", at |-> DhtOffset(DecStreams[1], k, 2),
    buf |-> MoveCode(DecStreams[1], DhtOffset(DecStreams[1], k, 2), from, to)] :
     k \in 1..2,
     from \in {l \in 1..16 : bits_dc_luminance[l] > 0 /\ bits_ac_luminance[l] > 0},
     to \in 1..16}
  \cup {[kind |-> "symbol", at |-> DhtOffset(DecStreams[1], 1, 2),
         buf |-> CorruptByte(DecStreams[1], DhtOffset(DecStreams[1], 1, 2) + 19 + i, v)] :
          i \in 1..SumSeq(bits_dc_luminance, 16), v \in {16, 255}}

\* The application decodes such a stream: jpeg_read_header,
\* jpeg_start_decompress, jpeg_read_scanlines row by row, stopping at a
\* call that delivers no row, jpeg_finish_decompress.  legal tells whether
\* the table that was changed is a prefix code with legal symbols.
InitHuff ==
  /\ cinfo = NoCompress
  /\ \E input \in HuffInputs :
       /\ input.buf # DecStreams[1]
       /\ dinfo = jpeg_CreateDecompress(input.buf, DecMemSize(1))
       /\ app = [entry |-> "decode", kind |-> input.kind, i |-> 1,
                 at |-> input.at, len |-> 0, stop |-> TRUE,
                 legal |-> /\ input.kind = "code"
                           /\ legal_code_tree(HuffBits(input.buf, input.at)),
                 pc |-> "header", hdr |-> -1, reads |-> 0, short |-> 0,
                 image |-> <<>>, finished |-> FALSE]

NextHuff ==
  \/ DecReadHeader
  \/ DecStartDecompress
  \/ DecReadScanlines
  \/ DecFinishDecompress

SpecHuff == InitHuff /\ [][NextHuff]_vars

\* C33 as stated: a decoding table is derived only from tables that are
\* prefix codes with DC symbols of at most 15; a DHT segment that is none
\* has been refused with a warning and JPEG_SUSPENDED before
\* jpeg_start_decompress is over, and no assertion fails.
C33_BadTableRejected ==
  (app.entry = "decode" /\ ~app.legal /\ app.pc \notin {"header", "start"}) =>
    /\ app.pc = "failed" /\ ~dinfo.asserted
    /\ app.hdr = JPEG_SUSPENDED
    /\ dinfo.msg_code \in {"JERR_BAD_HUFF_TABLE", "JERR_JSC_BAD_HUFFVALS"}

(***************************************************************************)
(* Long chains of markers (jdmarker.c, jdinput.c)                          *)
(***************************************************************************)
\* The numbers of markers chained: few, and around the loop limit of 1000
\* less the markers of the headers.
ChainLens == {1, 500, 990, 991, 992, 993, 999, 1000}

\* The markers chained: TEM and RST0, which have no parameters, and an
\* APP1 segment with no data, which is skipped.
ChainMarkers == {<<255, M_TEM>>, <<255, M_RST0>>, <<255, M_APP0 + 1, 0, 2>>}

RECURSIVE Chain(_, _)
Chain(marker, n) ==
  IF n = 0 THEN <<>>
  ELSE IF n = 1 THEN marker
  ELSE Chain(marker, n \div 2) \o Chain(marker, n - n \div 2)

\* The offsets a chain is put in behind: SOI, the last table in front of
\* the scan header, the entropy-coded data.
ChainPlaces ==
  [soi |-> 2, sos |-> HeaderLen(DecStreams[1]) - 2, eoi |-> Len(DecStreams[1]) - 2]

\* The application decodes the first valid stream with a chain of markers
\* put in: jpeg_read_header, jpeg_start_decompress, jpeg_read_scanlines row
\* by row, jpeg_finish_decompress.
InitChain ==
  /\ cinfo = NoCompress
  /\ \E place \in {"soi", "sos", "eoi"}, marker \in ChainMarkers, n \in ChainLens :
       /\ dinfo = jpeg_CreateDecompress(
                    InjectBytes(DecStreams[1], ChainPlaces[place], Chain(marker, n)),
                    DecMemSize(1))
       /\ app = [entry |-> "decode", kind |-> place, i |-> 1,
                 at |-> ChainPlaces[place], len |-> n, stop |-> TRUE,
                 marker |-> marker[2],
                 pc |-> "header", hdr |-> -1, reads |-> 0, short |-> 0,
                 image |-> <<>>, finished |-> FALSE]

NextChain ==
  \/ DecReadHeader
  \/ DecStartDecompress
  \/ DecReadScanlines
  \/ DecFinishDecompress

SpecChain == InitChain /\ [][NextChain]_vars

\* C34 as stated: a call that meets a chain of markers too long for the
\* loop limit of the marker reader returns a failure to its caller; no
\* assertion fails, whatever the length of the chain.
C34_LoopLimitReturns ==
  app.entry = "decode" => ~dinfo.asserted /\ app.pc # "aborted"
(***************************************************************************)
(* SOS markers with no components (jdmarker.c get_sos, jdinput.c)          *)
(***************************************************************************)
\* A scan header that names no component: length 6, Ns = 0, then Ss, Se
\* and Ah/Al.
PseudoSos(Se) == <<255, M_SOS, 0, 6, 0, 0, Se, 0>>

\* The numbers of pseudo SOS markers in front of the scan header of the
\* image: none, few, and around the loop limit of consume_markers.
PseudoCounts == {0, 1, 2, 3, 999, 1000, 1001}

\* The spectral selection ends written into the pseudo SOS markers.
PseudoEnds == {0, 1, 63, 64}

\* The application decodes a valid stream with pseudo SOS markers put in
\* front of its scan header: jpeg_read_header, jpeg_start_decompress,
\* jpeg_read_scanlines row by row, jpeg_finish_decompress.
InitPseudo ==
  /\ cinfo = NoCompress
  /\ \E i \in 1..2, Se \in PseudoEnds, n \in PseudoCounts :
       /\ dinfo = jpeg_CreateDecompress(
                    InjectBytes(DecStreams[i], HeaderLen(DecStreams[i]) - 2,
                                Chain(PseudoSos(Se), n)),
                    DecMemSize(i))
       /\ app = [entry |-> "decode", kind |-> "pseudo", i |-> i,
                 at |-> HeaderLen(DecStreams[i]) - 2, len |-> n, stop |-> TRUE,
                 marker |-> Se,
                 pc |-> "header", hdr |-> -1, reads |-> 0, short |-> 0,
                 image |-> <<>>, finished |-> FALSE]

NextPseudo ==
  \/ DecReadHeader
  \/ DecStartDecompress
  \/ DecReadScanlines
  \/ DecFinishDecompress

SpecPseudo == InitPseudo /\ [][NextPseudo]_vars

ArenaWidths == {DCTSIZE, 2 * DCTSIZE, DCTSIZE2}

\* The bytes of the working memory taken when jpeg_read_header is called,
\* and those of the quantization table of the DQT segment in front of the
\* frame header.
DecCreateBytes ==
  SIZEOF_my_memory_mgr + sizeofobject_adjust(SIZEOF_my_marker_reader)
  + sizeofobject_adjust(SIZEOF_my_input_controller)
  + sizeofobject_adjust(SIZEOF_jpeg_source_mgr)

DecTableBytes == sizeofobject_adjust(SIZEOF_JQUANT_TBL)

\* The working memories tried for a frame of one component and width w:
\* around the control block, around what is obtained before the frame
\* header, and around the size the frame asks for.
DecArenaSizes(w) ==
  {1, SIZEOF_my_memory_mgr - 1, SIZEOF_my_memory_mgr,
   DecCreateBytes - 1, DecCreateBytes,
   DecCreateBytes + DecTableBytes - 1, DecCreateBytes + DecTableBytes,
   1000, 5000,
   JSC_WORKING_MEM_SIZE(1, w) - 1, JSC_WORKING_MEM_SIZE(1, w),
   JSC_WORKING_MEM_SIZE(1, w) + SIZEOF_ALIGN_TYPE}

\* The application gives the decoder a working memory and a stream whose
\* frame header announces the width at, and decodes: jpeg_read_header,
\* jpeg_start_decompress, jpeg_read_scanlines row by row,
\* jpeg_finish_decompress.  An assertion of jpeg_create_decompress or of
\* jpeg_mem_src ends the process before the first of them.
InitArena ==
  /\ cinfo = NoCompress
  /\ \E i \in 1..2, w \in ArenaWidths :
       \E size \in DecArenaSizes(w) :
         /\ dinfo = jpeg_CreateDecompress(
                      SetField(DecStreams[i], SofOffset(DecStreams[i]) + 6, w),
                      size)
         /\ app = [entry |-> "decode", kind |-> "arena", i |-> i,
                   at |-> w, len |-> size, stop |-> TRUE,
                   pc |-> DecAfter(dinfo, "header"), hdr |-> -1,
                   reads |-> 0, short |-> 0,
                   image |-> <<>>, finished |-> FALSE]

NextArena ==
  \/ DecReadHeader
  \/ DecStartDecompress
  \/ DecReadScanlines
  \/ DecFinishDecompress

SpecArena == InitArena /\ [][NextArena]_vars

\* The working memory is smaller than the size the frame header asks for.
ArenaTooSmall ==
  /\ app.entry = "decode" /\ app.kind = "arena"
  /\ app.len < JSC_WORKING_MEM_SIZE(1, app.at)

\* C36 as stated: with a working memory smaller than the size the frame
\* header asks for, jpeg_read_header returns JPEG_SUSPENDED with
\* OUT_OF_MEMORY from get_sof, nothing of the image obtained.
C36_SmallArenaSuspends ==
  (ArenaTooSmall /\ app.pc # "header") =>
    /\ app.pc = "failed" /\ ~dinfo.asserted
    /\ app.hdr = JPEG_SUSPENDED
    /\ dinfo.msg_code = "JERR_OUT_OF_MEMORY"
    /\ dinfo.comp_info_mem = NULL

\* C36, amended: with a working memory smaller than the size the frame
\* header asks for the decoder never gets ready.  When the memory holds
\* what is obtained before the frame header (the objects of
\* jpeg_create_decompress and jpeg_mem_src and the tables of the segments in
\* front of the frame header), get_sof warns OUT_OF_MEMORY and
\* jpeg_read_header returns JPEG_SUSPENDED, the component array not
\* obtained and the memory as it was before get_sof; when it does not, the
\* request that does not fit fails an assertion and nothing is reported.
C36_SmallArenaRejected ==
  ArenaTooSmall =>
    /\ app.pc \in {"header", "failed", "aborted"}
    /\ dinfo.global_state # DSTATE_READY
    /\ dinfo.comp_info_mem = NULL /\ dinfo.comp_info = <<>>
    /\ dinfo.statmem.bytes_used + dinfo.statmem.bytes_free = app.len
    /\ app.pc # "header" =>
         IF app.len >= DecCreateBytes + DecTableBytes
         THEN /\ app.pc = "failed" /\ ~dinfo.asserted
              /\ app.hdr = JPEG_SUSPENDED
              /\ dinfo.msg_code = "JERR_OUT_OF_MEMORY"
              /\ dinfo.statmem.bytes_used = DecCreateBytes + DecTableBytes
         ELSE /\ app.pc = "aborted" /\ dinfo.asserted
              /\ dinfo.msg_code = "none"
              /\ dinfo.ptr = NULL
              /\ (app.len < DecCreateBytes <=> app.hdr = -1)

\* jpeg_read_header has returned on a working memory one byte short of the
\* size the frame header asks for.
C36_OneByteShort ==
  /\ ArenaTooSmall /\ app.len = JSC_WORKING_MEM_SIZE(1, app.at) - 1
  /\ app.pc = "failed" /\ app.hdr = JPEG_SUSPENDED
  /\ dinfo.msg_code = "JERR_OUT_OF_MEMORY"
(***************************************************************************)
(* The regions of the working memory (jscmemstatic.c, jmemmgr.c)           *)
(***************************************************************************)
\* sizeof(JSAMPROW), a pointer, and sizeof(JSAMPLE).
SIZEOF_JSAMPROW == 8
SIZEOF_JSAMPLE == 1

\* The rows of a sample array: numrows regions of samplesperrow samples
\* in the object at workspace.
sarray_rows(workspace, samplesperrow, numrows) ==
  {[at |-> workspace + k * samplesperrow, size |-> samplesperrow * SIZEOF_JSAMPLE] :
     k \in 0..(numrows - 1)}

\* get_sarray_std behind the row pointers: the rows are obtained as one
\* object, none for an array of no rows.
get_sarray_rows_got(c, samplesperrow, numrows) ==
  IF c.asserted THEN c
  ELSE [c EXCEPT !.rows = @ \cup sarray_rows(c.ptr, samplesperrow, numrows)]

get_sarray_rows(c, samplesperrow, numrows) ==
  IF c.asserted \/ numrows = 0 THEN c
  ELSE get_sarray_rows_got(
         get_mem_std(c, numrows * samplesperrow * SIZEOF_JSAMPLE),
         samplesperrow, numrows)

\* get_sarray_std: the row pointers, then the rows.
get_sarray_std(c, samplesperrow, numrows) ==
  IF numrows > DCTSIZE * MAX_SAMP_FACTOR THEN [c EXCEPT !.asserted = TRUE]
  ELSE get_sarray_rows(get_mem_std(c, numrows * SIZEOF_JSAMPROW),
                       samplesperrow, numrows)

\* Bounds of the scenario: the requests per working memory, the sizes of
\* the memories and of the objects, the shapes of the sample arrays.
MaxRegionRequests == 3
RegionArenas == {1, 8, 24, 40, 64, 100}
RegionSizes == {0, 1, 8, 12, 24, 41}
RegionRows == {0, 1, 2, DCTSIZE * MAX_SAMP_FACTOR + 1}
RegionSamples == {1, 3, 8}

\* An application gives a working memory to an object and asks for
\* objects and sample arrays in any order; before holds the counters at the
\* last request and asked the bytes it asked for.
InitRegions ==
  /\ \E size \in RegionArenas :
       /\ cinfo = [global_state |-> 0, statmem |-> jpeg_give_static_mem(size),
                   mem |-> NULL, ptr |-> NULL, objects |-> {}, written |-> {},
                   rows |-> {}, asserted |-> FALSE, msg_code |-> "none"]
       /\ app = [entry |-> "regions", working_size |-> size, calls |-> 0,
                 last |-> "none", asked |-> <<>>,
                 before |-> jpeg_give_static_mem(size)]
  /\ dinfo = NoDecompress

RegionsCalled(c, call, asked) ==
  /\ cinfo' = c
  /\ app' = [app EXCEPT !.calls = @ + 1, !.last = call, !.asked = asked,
                        !.before = cinfo.statmem]
  /\ UNCHANGED dinfo

\* jpeg_get_mem called as jinit_memory_mgr calls it: NULL is returned to
\* the caller.
RegGetMem ==
  /\ app.entry = "regions" /\ ~cinfo.asserted /\ app.calls < MaxRegionRequests
  /\ \E size \in RegionSizes :
       RegionsCalled(got_mem(cinfo, jpeg_get_mem(cinfo.statmem, size), size),
                     "jpeg_get_mem", <<size>>)

\* get_mem of the memory manager: the size rounded up, NULL asserted.
RegGetMemStd ==
  /\ app.entry = "regions" /\ ~cinfo.asserted /\ app.calls < MaxRegionRequests
  /\ \E size \in RegionSizes :
       RegionsCalled(get_mem_std(cinfo, size), "get_mem",
                     <<sizeofobject_adjust(size)>>)

RegGetSarray ==
  /\ app.entry = "regions" /\ ~cinfo.asserted /\ app.calls < MaxRegionRequests
  /\ \E samplesperrow \in RegionSamples, numrows \in RegionRows :
       RegionsCalled(get_sarray_std(cinfo, samplesperrow, numrows), "get_sarray",
                     <<sizeofobject_adjust(numrows * SIZEOF_JSAMPROW),
                       sizeofobject_adjust(numrows * samplesperrow * SIZEOF_JSAMPLE)>>)

NextRegions ==
  \/ RegGetMem
  \/ RegGetMemStd
  \/ RegGetSarray

SpecRegions == InitRegions /\ [][NextRegions]_vars

\* A region lies inside the buffer; two regions share no byte.
RegionInside(o, statmem) == o.at >= 0 /\ o.at + o.size <= statmem.buffer_size_bytes

RegionsApart(a, b) == a.at + a.size <= b.at \/ b.at + b.size <= a.at

\* C37: after any sequence of requests bytes_used + bytes_free is the size
\* of the buffer, every object and every sample row handed out lies inside
\* the buffer, no two objects and no two rows share a byte, and a request
\* that does not fit leaves bytes_used and bytes_free as they were.
C37_ArenaRegions ==
  app.entry = "regions" =>
    /\ cinfo.statmem.buffer_size_bytes = app.working_size
    /\ cinfo.statmem.bytes_used + cinfo.statmem.bytes_free
         = cinfo.statmem.buffer_size_bytes
    /\ cinfo.statmem.bytes_used >= 0 /\ cinfo.statmem.bytes_free >= 0
    /\ \A o \in cinfo.objects \cup cinfo.rows : RegionInside(o, cinfo.statmem)
    /\ \A a \in cinfo.objects : \A b \in cinfo.objects \ {a} : RegionsApart(a, b)
    /\ \A a \in cinfo.rows : \A b \in cinfo.rows \ {a} : RegionsApart(a, b)
    /\ \A o \in cinfo.objects : o.at + o.size <= cinfo.statmem.bytes_used
    /\ (app.last = "jpeg_get_mem" /\ cinfo.ptr = NULL) =>
         /\ cinfo.statmem = app.before /\ ~cinfo.asserted
         /\ app.asked[1] > app.before.bytes_free
    /\ (app.last = "get_mem" /\ cinfo.ptr = NULL) =>
         /\ cinfo.statmem = app.before /\ cinfo.asserted
         /\ app.asked[1] > app.before.bytes_free
    /\ (app.last = "get_sarray" /\ cinfo.ptr = NULL /\ cinfo.asserted) =>
         \/ cinfo.statmem = app.before
         \/ /\ cinfo.statmem.bytes_used = app.before.bytes_used + app.asked[1]
            /\ app.asked[2] > cinfo.statmem.bytes_free

\* A request has failed in a working memory that holds objects and the
\* rows of a sample array.
C37_RequestRefused ==
  /\ app.entry = "regions" /\ app.last = "jpeg_get_mem"
  /\ cinfo.ptr = NULL /\ cinfo.statmem = app.before
  /\ Cardinality(cinfo.objects) >= 2 /\ Cardinality(cinfo.rows) >= 2

(***************************************************************************)
(* The state behind jpeg_read_header (jdapimin.c)                          *)
(***************************************************************************)
\* C38 as stated: the object is in DSTATE_READY only when jpeg_read_header
\* has returned JPEG_HEADER_OK; behind a return of JPEG_SUSPENDED it is in
\* another state.
C38_ReadyOnlyAfterHeaderOk ==
  (app.entry = "decode" /\ app.pc # "header"
     /\ dinfo.global_state = DSTATE_READY) =>
    app.hdr = JPEG_HEADER_OK
(***************************************************************************)
(* Files of more than one scan (jdinput.c, jdmaster.c, jdcoefct.c)         *)
(***************************************************************************)
\* A valid stream of one component with n components in its frame header:
\* the components 2..n sample and quantize as the first does.  The scan
\* header still lists the first component only.
FrameOf(stream, n) ==
  SubSeq(stream, 1, SofOffset(stream))
  \o <<0, 8 + 3 * n>> \o SubSeq(stream, SofOffset(stream) + 3, SofOffset(stream) + 7)
  \o <<n>>
  \o [j \in 1..(3 * n) |-> IF j % 3 = 1 THEN (j + 2) \div 3
                           ELSE IF j % 3 = 2 THEN 17 ELSE 0]
  \o SubSeq(stream, SofOffset(stream) + 12, Len(stream))

\* What follows the scan of a valid stream in front of EOI: a second scan
\* header, alone or with the data of the scan.
SecondScans(stream) ==
  {SosHeader(stream),
   SubSeq(stream, HeaderLen(stream) - 1, Len(stream) - 2)}

\* The streams of more than one scan, each with the number of components
\* of its frame header.
ScansInputs ==
  {[kind |-> "valid", i |-> i, len |-> 1, buf |-> DecStreams[i]] : i \in 1..2}
  \cup {[kind |-> "fewer", i |-> i, len |-> n, buf |-> FrameOf(DecStreams[i], n)] :
          i \in 1..2, n \in 2..MAX_COMPS_IN_SCAN}
  \cup {[kind |-> "second", i |-> 1, len |-> 1,
         buf |-> InjectBytes(DecStreams[1], Len(DecStreams[1]) - 2, scan)] :
          scan \in SecondScans(DecStreams[1])}

\* The application decodes a stream: jpeg_read_header,
\* jpeg_start_decompress, jpeg_read_scanlines row by row,
\* jpeg_finish_decompress; it stops or goes on after a call that delivers no
\* row.
InitScans ==
  /\ cinfo = NoCompress
  /\ \E input \in ScansInputs, stop \in BOOLEAN :
       /\ dinfo = jpeg_CreateDecompress(
                    input.buf,
                    JSC_WORKING_MEM_SIZE(input.len, DecImages[input.i].width))
       /\ app = [entry |-> "decode", kind |-> input.kind, i |-> input.i,
                 at |-> Len(input.buf), len |-> input.len, stop |-> stop,
                 pc |-> "header", hdr |-> -1, reads |-> 0, short |-> 0,
                 image |-> <<>>, finished |-> FALSE]

NextScans ==
  \/ DecReadHeader
  \/ DecStartDecompress
  \/ DecReadScanlines
  \/ DecFinishDecompress

SpecScans == InitScans /\ [][NextScans]_vars

\* C39 as stated: a stream whose first scan header lists fewer components
\* than its frame header, or that holds a second scan header, is turned
\* down by a call that returns a failure; no assertion fails and the
\* decoding does not end as that of a good stream.
C39_MultiScanReported ==
  (app.entry = "decode" /\ app.kind \in {"fewer", "second"}) =>
    /\ ~dinfo.asserted /\ app.pc # "aborted"
    /\ ~app.finished
(***************************************************************************)
(* The coefficient loop of decode_mcu on any symbols (jdhuff.c, jutils.c)  *)
(***************************************************************************)
\* The symbols HUFF_DECODE delivers in the scenario, run in the high and
\* size in the low four bits: end of block, a run of 16 zeroes, and
\* coefficients of 1 and of 15 bits behind runs of 0, 13 and 15.
AcSymbols == {0, 240, 1, 209, 241, 255}

\* The passes of the loop per block, and the bits of the coefficient that
\* follow the symbol s in the bit buffer.
MaxSymbols == 5
ValueBits(s) == {[j \in 1..(s % 16) |-> b] : b \in {0, 1}}

\* The block is cleared and the DC coefficient stored; the loop over the
\* AC coefficients starts at k = 1.  index is the last index into
\* jpeg_natural_order, before the block in front of the last pass, bits
\* the bits of the last coefficient.
InitSymbols ==
  /\ cinfo = NoCompress
  /\ dinfo = [global_state |-> DSTATE_SCANNING, get_buffer |-> <<>>]
  /\ \E dc \in {-1024, 1023} :
       app = [entry |-> "symbols", k |-> 1, block |-> [ZeroBlock EXCEPT ![1] = dc],
              before |-> [ZeroBlock EXCEPT ![1] = dc], s |-> 0, passes |-> 0,
              bits |-> <<>>, stored |-> FALSE, index |-> 0]

\* One pass of the loop while (k < coef_limit) with all coefficients
\* wanted, on the symbol s that HUFF_DECODE delivered and the bits behind
\* it.
SymbolDecoded(st, bits) ==
  /\ dinfo' = st.d
  /\ app' = [app EXCEPT !.k = st.k, !.block = st.block, !.before = app.block,
                        !.s = st.s, !.bits = bits, !.passes = @ + 1,
                        !.stored = (st.s % 16 # 0),
                        !.index = IF st.s % 16 # 0 THEN st.k - 1 ELSE @]
  /\ UNCHANGED cinfo

SymbolsDecodePass ==
  /\ app.entry = "symbols" /\ app.k < DCTSIZE2 /\ app.passes < MaxSymbols
  /\ \E s \in AcSymbols : \E bits \in ValueBits(s) :
       SymbolDecoded(decode_ac_symbol([d |-> [dinfo EXCEPT !.get_buffer = bits],
                                       ok |-> TRUE, s |-> s, k |-> app.k,
                                       block |-> app.block, mcu |-> <<>>]),
                     bits)

\* The next block of the MCU.
SymbolsNextBlock ==
  /\ app.entry = "symbols" /\ app.k >= DCTSIZE2
  /\ app' = [app EXCEPT !.k = 1, !.block = ZeroBlock, !.before = ZeroBlock,
                        !.s = 0, !.bits = <<>>, !.passes = 0, !.stored = FALSE, !.index = 0]
  /\ UNCHANGED <<cinfo, dinfo>>

NextSymbols ==
  \/ SymbolsDecodePass
  \/ SymbolsNextBlock

SpecSymbols == InitSymbols /\ [][NextSymbols]_vars

\* C40: whatever symbols are decoded, an index into jpeg_natural_order is
\* below its DCTSIZE2 + 16 entries, the entry read is a position of the
\* block, the coefficient is stored there and nowhere else, and the block
\* keeps its 64 entries.
C40_StoresInsideBlock ==
  app.entry = "symbols" =>
    /\ Len(jpeg_natural_order) = DCTSIZE2 + 16
    /\ DOMAIN app.block = 1..DCTSIZE2
    /\ app.k <= DCTSIZE2 + 15
    /\ \A i \in 1..Len(jpeg_natural_order) : jpeg_natural_order[i] \in 0..(DCTSIZE2 - 1)
    /\ app.stored =>
         /\ app.index \in 1..(DCTSIZE2 + 15) /\ app.k = app.index + 1
         /\ app.block[jpeg_natural_order[app.index + 1] + 1]
              = JCOEF(HUFF_EXTEND(BitsVal(app.bits, app.s % 16), app.s % 16))
         /\ Len(app.bits) = app.s % 16
         /\ \A n \in 1..DCTSIZE2 :
              n # jpeg_natural_order[app.index + 1] + 1 => app.block[n] = app.before[n]
    /\ ~app.stored => app.block = app.before

\* A coefficient was stored behind a run of 15 zeroes that started at the
\* last position of the block: the index is DCTSIZE2 + 14 and the
\* coefficient is in the last entry of the block.
C40_RunPastBlock ==
  /\ app.entry = "symbols" /\ app.stored
  /\ app.index = DCTSIZE2 + 14
  /\ app.block[DCTSIZE2] # 0 /\ app.block[DCTSIZE2] # app.before[DCTSIZE2]

====
